---- MODULE Spec2Model ----
(***************************************************************************)
(* Template resolution and generation engine of noter                      *)
(* (src/src/core/template/{engine,builder,context}.rs).                    *)
(*                                                                         *)
(* Conventions                                                             *)
(*   Option<T>   : <<>> is None, <<v>> is Some(v).                         *)
(*   Result<T>   : [ok, value, error]; value is meaningful when ok, error  *)
(*                 when not.                                               *)
(*   course ids and course_mapping keys : sequences of characters, each    *)
(*                 character an atom; a character knows its UTF-8 width    *)
(*                 because str::len() counts bytes while str::chars()      *)
(*                 yields characters.                                      *)
(*   other names (template, variant, course type, section) : atoms that    *)
(*                 the code only compares for equality.                    *)
(*   generated text : the sequence of the pieces pushed onto the String.   *)
(***************************************************************************)
EXTENDS Naturals, Sequences, FiniteSets

VARIABLES
    pc,             \* position inside the operation being run
    course_id,      \* the course_id argument of matches_course_pattern
    pattern,        \* the pattern argument of matches_course_pattern
    matches,        \* Option<bool>: the value matches_course_pattern returned
    context,        \* the TemplateContext handed to the engine
    now,            \* the wall clock read by Local::now()
    template_ref,   \* the TemplateReference handed to render_template
    resolved,       \* the values resolve_course_type returned, in call order
    template_def,   \* Option<TemplateDefinition> found by get_template_definition
    variant,        \* Option<TemplateVariant> chosen by select_variant_for_template
    result,         \* Option<Result<String>>: what the operation returned
    builder,        \* the TemplateBuilder the caller configured
    environment,    \* what TemplateValidator::validate_system finds on this machine
    issues,         \* Option<Vec<ValidationIssue>>: the issues validate_template returned
    generator_calls, \* how often generate_typst_document was invoked
    op,             \* the TemplateBuilder method the caller is running, "none" between calls
    steps,          \* the steps the running call has performed, in order
    outer,          \* Option: the locals of build_with_validation / build_with_metadata
    returned,       \* what the calls made so far on the builder returned, in call order
    live_config,    \* Option<Config>: the caller's own Config value, which it may go on editing
    other           \* Option: another caller's builder and what its build() returned

vars == <<pc, course_id, pattern, matches, context, now, template_ref,
          resolved, template_def, variant, result, builder, environment,
          issues, generator_calls, op, steps, outer, returned, live_config, other>>

\* What belongs to the callers of the builder rather than to one build()
caller == <<outer, returned, live_config, other>>

----------------------------------------------------------------------------
(* Bounds *)

MaxLen == 2

MaxMapping == 2

MaxVariants == 2

MaxSections == 2

MaxCalls == 3

----------------------------------------------------------------------------
(* Option, Result and strings *)

None == <<>>

Some(v) == <<v>>

NoError == [kind |-> "", args |-> <<>>]

Ok(v) == [ok |-> TRUE, value |-> v, error |-> NoError]

Err(kind, args) == [ok |-> FALSE, value |-> <<>>, error |-> [kind |-> kind, args |-> args]]

\* A character outside ASCII: two bytes in UTF-8.
TwoByteChar == "U+00E9"

Chars == {"0", "1", "x", "X", TwoByteChar}

\* char::len_utf8
len_utf8(c) == IF c = TwoByteChar THEN 2 ELSE 1

\* str::len(): the length in bytes
RECURSIVE str_len(_)
str_len(s) == IF s = <<>> THEN 0 ELSE len_utf8(Head(s)) + str_len(Tail(s))

Strings == UNION {[1..n -> Chars] : n \in 0..MaxLen}

Min(a, b) == IF a <= b THEN a ELSE b

\* a.chars().zip(b.chars()): stops at the end of the shorter one
zip_len(a, b) == Min(Len(a), Len(b))

\* The decimal digits of n: what format!("{}", n) writes
Digit(d) == <<"0", "1", "2", "3", "4", "5", "6", "7", "8", "9">>[d + 1]

RECURSIVE to_string(_)
to_string(n) ==
    IF n < 10 THEN <<Digit(n)>> ELSE to_string(n \div 10) \o <<Digit(n % 10)>>

\* Vec::contains
contains(v, x) == \E i \in 1..Len(v) : v[i] = x

\* The lists of at most n entries drawn from S
Lists(S, n) == UNION {[1..k -> S] : k \in 0..n}

----------------------------------------------------------------------------
(* TemplateEngine::matches_course_pattern *)

matches_course_pattern(id, pat) ==
    IF str_len(id) # str_len(pat)
    THEN FALSE
    ELSE \A i \in 1..zip_len(id, pat) : pat[i] = "x" \/ pat[i] = "X" \/ pat[i] = id[i]

----------------------------------------------------------------------------
(* course_mapping: a map from pattern or exact course id to course type.   *)
(* The model keeps its entries as a sequence without repeated keys.        *)

\* map.get(key)
map_get(m, key) ==
    IF \E i \in 1..Len(m) : m[i].key = key
    THEN Some(m[CHOOSE i \in 1..Len(m) : m[i].key = key].value)
    ELSE None

\* The order in which `for (pattern, course_type) in course_mapping` visits
\* the entries: the order of declaration in the source configuration.
map_iter(m) == m

\* The loop of resolve_course_type over the entries still to visit: the value
\* of the first entry whose pattern matches, None when the loop falls through.
RECURSIVE first_pattern_match(_, _)
first_pattern_match(id, entries) ==
    IF entries = <<>> THEN None
    ELSE IF matches_course_pattern(id, Head(entries).key)
         THEN Some(Head(entries).value)
         ELSE first_pattern_match(id, Tail(entries))

\* The same loop without the early return: the last matching entry wins.
RECURSIVE last_pattern_match(_, _)
last_pattern_match(id, entries) ==
    IF entries = <<>> THEN None
    ELSE LET rest == last_pattern_match(id, Tail(entries))
         IN  IF rest # None THEN rest
             ELSE IF matches_course_pattern(id, Head(entries).key)
                  THEN Some(Head(entries).value)
                  ELSE None

\* resolve_course_type with the pattern loop before the exact lookup
resolve_course_type_patterns_first(ctx, template_config) ==
    LET mapping == template_config.course_mapping
        id == ctx.course_id
    IN  IF mapping # None /\ first_pattern_match(id, map_iter(mapping[1])) # None
        THEN first_pattern_match(id, map_iter(mapping[1]))[1]
        ELSE IF mapping # None /\ map_get(mapping[1], id) # None
             THEN map_get(mapping[1], id)[1]
             ELSE ctx.metadata.course_type

\* resolve_course_type with a pattern loop that does not return early
resolve_course_type_last_match(ctx, template_config) ==
    LET mapping == template_config.course_mapping
        id == ctx.course_id
    IN  IF mapping # None /\ map_get(mapping[1], id) # None
        THEN map_get(mapping[1], id)[1]
        ELSE IF mapping # None /\ last_pattern_match(id, map_iter(mapping[1])) # None
             THEN last_pattern_match(id, map_iter(mapping[1]))[1]
             ELSE ctx.metadata.course_type

\* TemplateEngine::resolve_course_type
resolve_course_type(ctx, template_config) ==
    LET mapping == template_config.course_mapping
        id == ctx.course_id
    IN  IF mapping # None /\ map_get(mapping[1], id) # None
        THEN map_get(mapping[1], id)[1]
        ELSE IF mapping # None /\ first_pattern_match(id, map_iter(mapping[1])) # None
             THEN first_pattern_match(id, map_iter(mapping[1]))[1]
             ELSE ctx.metadata.course_type

----------------------------------------------------------------------------
(* TemplateConfig, TemplateContext, TemplateReference *)

\* The six builtin variable names
BuiltinNames == <<"course_id", "title", "author", "semester", "date", "year">>

\* EngineConfig as the context and the validator read it
EngineConfig(validate_variables, builtin_variables) ==
    [validation |-> [validate_variables |-> validate_variables],
     variables |-> [builtin_variables |-> builtin_variables, transformations |-> <<>>]]

\* impl Default for EngineConfig
DefaultEngineConfig == EngineConfig(TRUE, BuiltinNames)

\* TemplateConfig as the engine reads it
TemplateConfig(templates, variants, mapping) ==
    [metadata |-> [name |-> "dtu-template", version |-> "0.1.0"],
     templates |-> templates,
     variants |-> variants,
     course_mapping |-> mapping,
     engine |-> None]

\* impl Default for TemplateConfig
DefaultTemplateConfig ==
    [metadata |-> [name |-> "", version |-> ""],
     templates |-> <<>>,
     variants |-> None,
     course_mapping |-> None,
     engine |-> None]

\* TemplateContext as the engine reads it
Context(id, sections, template_config, course_type) ==
    [course_id |-> id,
     course_name |-> "Course",
     title |-> "Title",
     author |-> "Author",
     date |-> <<"2", "0", "2", "4", "-", "0", "9", "-", "0", "1">>,
     semester |-> <<"2", "0", "2", "4", " ", "Fall">>,
     sections |-> sections,
     custom_fields |-> <<>>,
     template_config |-> template_config,
     engine_config |-> DefaultEngineConfig,
     variables |-> <<>>,
     metadata |-> [course_type |-> course_type, template_source |-> "custom",
                   variant_used |-> None]]

\* TemplateReference::new
TemplateReference(name) == [name |-> name, variant |-> None]

\* TemplateReference::with_variant
with_variant(ref, variant_name) == [ref EXCEPT !.variant = Some(variant_name)]

IdleContext == Context(<<>>, <<>>, None, "general")

\* The reading of the wall clock during one call
FixedDate == [year |-> 2024, month |-> 9, day |-> 1]

\* Not a builder: the value of `builder` while the engine is called directly
IdleBuilder == [configured |-> FALSE]

\* No TemplateBuilder method has been called and no caller holds a Config
NoCalls ==
    /\ op = "none"
    /\ steps = <<>>
    /\ outer = None
    /\ returned = <<>>
    /\ live_config = None
    /\ other = None

----------------------------------------------------------------------------
(* Specification of the pattern matcher alone *)

InitPattern ==
    /\ pc = "call"
    /\ course_id \in Strings
    /\ pattern \in Strings
    /\ matches = None
    /\ context = IdleContext
    /\ now = FixedDate
    /\ template_ref = TemplateReference("note")
    /\ resolved = <<>>
    /\ template_def = None
    /\ variant = None
    /\ result = None
    /\ builder = IdleBuilder
    /\ environment = Ok(<<>>)
    /\ issues = None
    /\ generator_calls = 0
    /\ NoCalls

MatchPattern ==
    /\ pc = "call"
    /\ matches' = Some(matches_course_pattern(course_id, pattern))
    /\ pc' = "done"
    /\ UNCHANGED <<course_id, pattern, context, now, template_ref, resolved,
                   template_def, variant, result, builder, environment, issues,
                   generator_calls, op, steps, caller>>

NextPattern == MatchPattern

SpecPattern == InitPattern /\ [][NextPattern]_vars

\* Equal length, and every pattern character a wildcard or the course-id
\* character at its position
SameLengthAndAgree(id, pat) ==
    /\ Len(id) = Len(pat)
    /\ \A i \in 1..Len(pat) : pat[i] \in {"x", "X"} \/ pat[i] = id[i]

\* C5: a pattern matches a course id iff both have the same length and at
\* every position the pattern character is the wildcard x or X or equals the
\* course-id character at that position; a pattern of another length never
\* matches.
C5_MatchIffSameLengthAndAgree ==
    pc = "done" => (matches = Some(SameLengthAndAgree(course_id, pattern)))

----------------------------------------------------------------------------
(* Specification of course-type resolution alone *)

CourseIds == {<<"0", "1">>, <<"1", "1">>, <<TwoByteChar>>}

MappingKeys ==
    {<<"0", "1">>, <<"0", "x">>, <<"X", "x">>, <<"x", "1">>, <<"1", "x">>, <<"0">>}

CourseTypes == {"math", "physics"}

MappingEntries == [key : MappingKeys, value : CourseTypes]

DistinctKeys(m) == \A i, j \in 1..Len(m) : m[i].key = m[j].key => i = j

Mappings(n) == {m \in Lists(MappingEntries, n) : DistinctKeys(m)}

InitCourseType ==
    /\ pc = "call"
    /\ \E id \in CourseIds,
          mapping \in {None} \cup {Some(m) : m \in Mappings(MaxMapping)},
          course_type \in {"general", "physics"} :
            context = Context(id, <<>>, Some(TemplateConfig(<<>>, None, mapping)), course_type)
    /\ now = FixedDate
    /\ template_ref = TemplateReference("note")
    /\ resolved = <<>>
    /\ course_id = <<>>
    /\ pattern = <<>>
    /\ matches = None
    /\ template_def = None
    /\ variant = None
    /\ result = None
    /\ builder = IdleBuilder
    /\ environment = Ok(<<>>)
    /\ issues = None
    /\ generator_calls = 0
    /\ NoCalls

\* resolve_course_type called on the context; a caller may resolve again.
ResolveCourseType ==
    /\ pc \in {"call", "again"}
    /\ resolved' = Append(resolved, resolve_course_type(context, context.template_config[1]))
    /\ pc' = IF pc = "call" THEN "again" ELSE "done"
    /\ UNCHANGED <<course_id, pattern, matches, context, now, template_ref,
                   template_def, variant, result, builder, environment, issues,
                   generator_calls, op, steps, caller>>

NextCourseType == ResolveCourseType

SpecCourseType == InitCourseType /\ [][NextCourseType]_vars

\* The course_mapping of the context's template configuration, <<>> if absent
MappingOf(ctx) ==
    IF ctx.template_config = None \/ ctx.template_config[1].course_mapping = None
    THEN <<>>
    ELSE ctx.template_config[1].course_mapping[1]

ExactIndexes(ctx) ==
    {i \in 1..Len(MappingOf(ctx)) : MappingOf(ctx)[i].key = ctx.course_id}

\* The entries the matcher accepts for the course id
MatchingIndexes(ctx) ==
    {i \in 1..Len(MappingOf(ctx)) :
        matches_course_pattern(ctx.course_id, MappingOf(ctx)[i].key)}

\* C3: the effective course type is the value of the exact key if there is
\* one (even after an earlier matching wildcard pattern), otherwise the value
\* of a matching pattern, and the baseline only when no entry resolves.
C3_ResolutionPrecedence ==
    resolved # <<>> =>
        IF ExactIndexes(context) # {}
        THEN \E i \in ExactIndexes(context) : resolved[1] = MappingOf(context)[i].value
        ELSE IF MatchingIndexes(context) # {}
             THEN \E i \in MatchingIndexes(context) :
                     resolved[1] = MappingOf(context)[i].value
             ELSE resolved[1] = context.metadata.course_type

\* An exact key declared after a wildcard pattern that matches too, mapped to
\* another type, with a baseline different from both.
C3_Witness ==
    /\ resolved # <<>>
    /\ Len(MappingOf(context)) = 2
    /\ ExactIndexes(context) = {2}
    /\ 1 \in MatchingIndexes(context)
    /\ MappingOf(context)[1].value # MappingOf(context)[2].value
    /\ context.metadata.course_type \notin
           {MappingOf(context)[1].value, MappingOf(context)[2].value}
    /\ resolved[1] = MappingOf(context)[2].value

\* The matching entry declared first
FirstMatchingIndex(ctx) ==
    CHOOSE i \in MatchingIndexes(ctx) : \A j \in MatchingIndexes(ctx) : i <= j

----------------------------------------------------------------------------
(* TemplateEngine: definition lookup and variant selection *)

\* The first element of v that satisfies Test: Iterator::find
FirstWhere(v, Test(_)) ==
    LET hits == SelectSeq(v, Test) IN IF hits = <<>> THEN None ELSE Some(Head(hits))

\* The last element of v that satisfies Test
LastWhere(v, Test(_)) ==
    LET hits == SelectSeq(v, Test) IN IF hits = <<>> THEN None ELSE Some(hits[Len(hits)])

\* get_template_definition that takes a missing configuration for an empty one
get_template_definition_defaulting(ctx, ref) ==
    LET templates == IF ctx.template_config = None THEN <<>>
                     ELSE ctx.template_config[1].templates
        found == FirstWhere(templates, LAMBDA t : t.name = ref.name)
    IN  IF found = None THEN Err("TemplateNotFound", <<ref.name>>)
                        ELSE Ok(found[1])

\* get_template_definition that falls back to the first definition
get_template_definition_first(ctx, ref) ==
    IF ctx.template_config = None
    THEN Err("ConfigurationAbsent", <<>>)
    ELSE LET templates == ctx.template_config[1].templates
             found == FirstWhere(templates, LAMBDA t : t.name = ref.name)
         IN  IF found # None THEN Ok(found[1])
             ELSE IF templates # <<>> THEN Ok(templates[1])
             ELSE Err("TemplateNotFound", <<ref.name>>)

\* TemplateEngine::get_template_definition
get_template_definition(ctx, ref) ==
    IF ctx.template_config = None
    THEN Err("ConfigurationAbsent", <<>>)
    ELSE LET found == FirstWhere(ctx.template_config[1].templates,
                                 LAMBDA t : t.name = ref.name)
         IN  IF found = None THEN Err("TemplateNotFound", <<ref.name>>)
                             ELSE Ok(found[1])

\* find_specific_variant that falls back to the base definition
\* find_specific_variant that also asks the variant to fit the course type
find_specific_variant_of_course_type(ctx, def, variant_name) ==
    LET variants == IF ctx.template_config # None /\ ctx.template_config[1].variants # None
                    THEN ctx.template_config[1].variants[1] ELSE <<>>
        found == FirstWhere(variants,
                            LAMBDA v : /\ v.template = def.name
                                       /\ v.name = variant_name
                                       /\ \/ contains(v.course_types, ctx.metadata.course_type)
                                          \/ contains(v.course_types, "all"))
    IN  IF found # None THEN Ok(found)
        ELSE Err("VariantNotFound", <<variant_name, def.name>>)

find_specific_variant_fallback(ctx, def, variant_name) ==
    LET variants == IF ctx.template_config # None /\ ctx.template_config[1].variants # None
                    THEN ctx.template_config[1].variants[1] ELSE <<>>
        found == FirstWhere(variants,
                            LAMBDA v : v.template = def.name /\ v.name = variant_name)
    IN  Ok(found)

\* TemplateEngine::find_specific_variant
find_specific_variant(ctx, def, variant_name) ==
    LET variants == IF ctx.template_config # None /\ ctx.template_config[1].variants # None
                    THEN ctx.template_config[1].variants[1] ELSE <<>>
        found == FirstWhere(variants,
                            LAMBDA v : v.template = def.name /\ v.name = variant_name)
    IN  IF found # None THEN Ok(found)
        ELSE Err("VariantNotFound", <<variant_name, def.name>>)

\* select_variant_for_template that prefers the type-specific variant,
\* taking an "all" variant only when no variant lists the course type
\* A selection whose implicit path takes the first variant of the course type,
\* whatever template it names
select_variant_for_template_any_template(ctx, def, ref) ==
    IF ref.variant # None
    THEN find_specific_variant(ctx, def, ref.variant[1])
    ELSE IF ctx.template_config # None /\ ctx.template_config[1].variants # None
         THEN LET course_type == resolve_course_type(ctx, ctx.template_config[1])
              IN  Ok(FirstWhere(ctx.template_config[1].variants[1],
                                LAMBDA v : \/ contains(v.course_types, course_type)
                                           \/ contains(v.course_types, "all")))
         ELSE Ok(None)

select_variant_for_template_specific_first(ctx, def, ref) ==
    IF ref.variant # None
    THEN find_specific_variant(ctx, def, ref.variant[1])
    ELSE IF ctx.template_config # None /\ ctx.template_config[1].variants # None
         THEN LET course_type == resolve_course_type(ctx, ctx.template_config[1])
                  own == SelectSeq(ctx.template_config[1].variants[1],
                                   LAMBDA v : v.template = def.name)
                  specific == FirstWhere(own, LAMBDA v : contains(v.course_types, course_type))
              IN  IF specific # None THEN Ok(specific)
                  ELSE Ok(FirstWhere(own, LAMBDA v : contains(v.course_types, "all")))
         ELSE Ok(None)

\* TemplateEngine::select_variant_for_template
select_variant_for_template(ctx, def, ref) ==
    IF ref.variant # None
    THEN find_specific_variant(ctx, def, ref.variant[1])
    ELSE IF ctx.template_config # None /\ ctx.template_config[1].variants # None
         THEN LET course_type == resolve_course_type(ctx, ctx.template_config[1])
              IN  Ok(FirstWhere(ctx.template_config[1].variants[1],
                                LAMBDA v : /\ v.template = def.name
                                           /\ \/ contains(v.course_types, course_type)
                                              \/ contains(v.course_types, "all")))
         ELSE Ok(None)

----------------------------------------------------------------------------
(* TemplateEngine: document generation *)

\* The section loop of generate_sections_from_context: "= {}\n\n" per section
RECURSIVE headings(_)
headings(sections) ==
    IF sections = <<>> THEN <<>>
    ELSE <<"= ", Head(sections), "\n\n">> \o headings(Tail(sections))

\* The section loop of generate_sections_from_template: a "\n\n" separator
\* before every section but the first
RECURSIVE separated_headings(_, _)
separated_headings(sections, i) ==
    IF i > Len(sections) THEN <<>>
    ELSE (IF i > 1 THEN <<"\n\n">> ELSE <<>>)
         \o <<"= ", sections[i], "\n\n">>
         \o separated_headings(sections, i + 1)

\* generate_sections_from_context that walks the sections backwards
RECURSIVE reversed_headings(_)
reversed_headings(sections) ==
    IF sections = <<>> THEN <<>>
    ELSE reversed_headings(Tail(sections)) \o <<"= ", Head(sections), "\n\n">>

generate_sections_from_context_reversed(ctx) == Ok(reversed_headings(ctx.sections))

\* TemplateEngine::generate_sections_from_context
generate_sections_from_context(ctx) == Ok(headings(ctx.sections))

\* TemplateEngine::generate_import_statement
generate_import_statement(ctx) ==
    IF ctx.template_config = None
    THEN Err("ConfigurationAbsent", <<>>)
    ELSE Ok(<<"#import \"@local/", ctx.template_config[1].metadata.name, ":",
              ctx.template_config[1].metadata.version, "\":*">>)

\* generate_show_rule that always calls the definition's function
generate_show_rule_definition_function(ctx, def, var, clock) ==
    Ok(<<"#show: ", def.function, ".with(\n  ", "course: \"">> \o ctx.course_id
       \o <<"\"", ",\n  ", "course-name: \"", ctx.course_name, "\"", ",\n  ",
            "title: \"", ctx.title, "\"", ",\n  ",
            "date: datetime(year: ">> \o to_string(clock.year)
       \o <<", month: ">> \o to_string(clock.month)
       \o <<", day: ">> \o to_string(clock.day)
       \o <<")", ",\n  ", "author: \"", ctx.author, "\"", ",\n  ",
            "semester: \"">> \o ctx.semester \o <<"\"", "\n)">>)

\* TemplateEngine::generate_show_rule
generate_show_rule(ctx, def, var, clock) ==
    LET function_name ==
            IF var # None /\ var[1].function # None THEN var[1].function[1]
            ELSE def.function
    IN  Ok(<<"#show: ", function_name, ".with(\n  ", "course: \"">> \o ctx.course_id
           \o <<"\"", ",\n  ", "course-name: \"", ctx.course_name, "\"", ",\n  ",
                "title: \"", ctx.title, "\"", ",\n  ",
                "date: datetime(year: ">> \o to_string(clock.year)
           \o <<", month: ">> \o to_string(clock.month)
           \o <<", day: ">> \o to_string(clock.day)
           \o <<")", ",\n  ", "author: \"", ctx.author, "\"", ",\n  ",
                "semester: \"">> \o ctx.semester \o <<"\"", "\n)">>)

\* get_template_sections that appends the additional sections to the override
get_template_sections_append_to_override(def, var) ==
    IF var # None
    THEN (IF var[1].override_sections # None
          THEN var[1].override_sections[1] ELSE def.default_sections)
         \o (IF var[1].additional_sections # None
             THEN var[1].additional_sections[1] ELSE <<>>)
    ELSE def.default_sections

\* get_template_sections that yields no sections where it should fall back
\* to the defaults alone
get_template_sections_no_fallback(def, var) ==
    IF var # None
    THEN IF var[1].override_sections # None
         THEN var[1].override_sections[1]
         ELSE def.default_sections
              \o (IF var[1].additional_sections # None
                  THEN var[1].additional_sections[1] ELSE <<>>)
    ELSE <<>>

\* TemplateEngine::get_template_sections
get_template_sections(def, var) ==
    IF var # None
    THEN IF var[1].override_sections # None
         THEN var[1].override_sections[1]
         ELSE def.default_sections
              \o (IF var[1].additional_sections # None
                  THEN var[1].additional_sections[1] ELSE <<>>)
    ELSE def.default_sections

\* generate_sections_from_template that skips the first resolved section
generate_sections_from_template_skip_first(def, var) ==
    LET sections == get_template_sections(def, var)
    IN  Ok(separated_headings(IF sections = <<>> THEN <<>> ELSE Tail(sections), 1))

\* TemplateEngine::generate_sections_from_template
generate_sections_from_template(def, var) ==
    Ok(separated_headings(get_template_sections(def, var), 1))

\* TemplateEngine::generate_typst_document
generate_typst_document(ctx, def, var, clock) ==
    LET import == generate_import_statement(ctx)
        show == generate_show_rule(ctx, def, var, clock)
        body == IF ctx.sections # <<>>
                THEN generate_sections_from_context(ctx)
                ELSE generate_sections_from_template(def, var)
    IN  IF ~import.ok THEN import
        ELSE IF ~show.ok THEN show
        ELSE IF ~body.ok THEN body
        ELSE Ok(import.value \o <<"\n\n">> \o show.value \o <<"\n\n">> \o body.value)

----------------------------------------------------------------------------
(* TemplateEngine::render_template, step by step *)

\* let template_def = Self::get_template_definition(context, template_ref)?
GetTemplateDefinition ==
    /\ pc = "render"
    /\ LET r == get_template_definition(context, template_ref)
       IN  IF r.ok
           THEN /\ template_def' = Some(r.value)
                /\ pc' = "select"
                /\ UNCHANGED result
           ELSE /\ result' = Some(r)
                /\ pc' = "done"
                /\ UNCHANGED template_def
    /\ steps' = Append(steps, "definition")
    /\ UNCHANGED <<course_id, pattern, matches, context, now, template_ref,
                   resolved, variant, builder, environment, issues, generator_calls,
                   op, caller>>

\* A selection that writes the chosen variant's name into the context's metadata
SelectVariantRecording ==
    /\ pc = "select"
    /\ LET r == select_variant_for_template(context, template_def[1], template_ref)
       IN  IF r.ok
           THEN /\ variant' = r.value
                /\ context' = IF r.value # None
                               THEN [context EXCEPT !.metadata.variant_used =
                                                        Some(r.value[1].name)]
                               ELSE context
                /\ pc' = "generate"
                /\ UNCHANGED result
           ELSE /\ result' = Some(r)
                /\ pc' = "done"
                /\ UNCHANGED <<variant, context>>
    /\ steps' = Append(steps, "variant")
    /\ UNCHANGED <<course_id, pattern, matches, now, template_ref,
                   resolved, template_def, builder, environment, issues,
                   generator_calls, op, caller>>

\* let variant = Self::select_variant_for_template(context, &template_def, template_ref)?
SelectVariant ==
    /\ pc = "select"
    /\ LET r == select_variant_for_template(context, template_def[1], template_ref)
       IN  IF r.ok
           THEN /\ variant' = r.value
                /\ pc' = "generate"
                /\ UNCHANGED result
           ELSE /\ result' = Some(r)
                /\ pc' = "done"
                /\ UNCHANGED variant
    /\ steps' = Append(steps, "variant")
    /\ UNCHANGED <<course_id, pattern, matches, context, now, template_ref,
                   resolved, template_def, builder, environment, issues,
                   generator_calls, op, caller>>

\* Self::generate_typst_document(context, &template_def, variant.as_ref())
GenerateDocument ==
    /\ pc = "generate"
    /\ result' = Some(generate_typst_document(context, template_def[1], variant, now))
    /\ generator_calls' = generator_calls + 1
    /\ pc' = "done"
    /\ steps' = Append(steps, "generate")
    /\ UNCHANGED <<course_id, pattern, matches, context, now, template_ref,
                   resolved, template_def, variant, builder, environment, issues,
                   op, caller>>

----------------------------------------------------------------------------
(* Specification of render_template on a context *)

Definition(name, function, default_sections) ==
    [name |-> name, function |-> function, default_sections |-> default_sections]

NoteDefinition == Definition("note", "dtu-note", <<"Intro", "Notes">>)

AssignmentDefinition == Definition("assignment", "dtu-assignment", <<"Problem">>)

TemplateLists == {<<NoteDefinition, AssignmentDefinition>>, <<AssignmentDefinition>>}

Variant(name, template, course_types, function, override_sections, additional_sections) ==
    [name |-> name, template |-> template, course_types |-> course_types,
     function |-> function, override_sections |-> override_sections,
     additional_sections |-> additional_sections]

\* Variants "v1" add a section; variants "v2" replace sections and function;
\* one variant "v1" names a template that has no definition.
RenderVariants ==
    {Variant("v1", t, ct, None, None, Some(<<"X">>)) :
        t \in {"note", "assignment"}, ct \in {<<"math">>, <<"all">>}}
    \cup
    {Variant("v2", t, ct, Some("dtu-special"), Some(<<"A", "B">>), None) :
        t \in {"note", "assignment"}, ct \in {<<"math">>, <<"all">>}}
    \cup
    {Variant("v1", "ghost", <<"all">>, None, None, Some(<<"G">>))}

InitRender ==
    /\ pc = "render"
    /\ \E id \in {<<"0", "1">>, <<"1", "1">>},
          sections \in {<<>>, <<"S1", "S2">>},
          templates \in TemplateLists,
          variants \in {None} \cup {Some(v) : v \in Lists(RenderVariants, MaxVariants)},
          mapping \in {None, Some(<<[key |-> <<"0", "x">>, value |-> "math"]>>)} :
            context = Context(id, sections,
                              Some(TemplateConfig(templates, variants, mapping)), "general")
    /\ \E name \in {"note", "assignment", "Note"},
          requested \in {None, Some("v1"), Some("v2")} :
            template_ref = [name |-> name, variant |-> requested]
    /\ now = FixedDate
    /\ course_id = <<>>
    /\ pattern = <<>>
    /\ matches = None
    /\ resolved = <<>>
    /\ template_def = None
    /\ variant = None
    /\ result = None
    /\ builder = IdleBuilder
    /\ environment = Ok(<<>>)
    /\ issues = None
    /\ generator_calls = 0
    /\ NoCalls

NextRender == GetTemplateDefinition \/ SelectVariant \/ GenerateDocument

SpecRender == InitRender /\ [][NextRender]_vars

\* The variants of the context's template configuration, <<>> if absent
VariantsOf(ctx) ==
    IF ctx.template_config = None \/ ctx.template_config[1].variants = None
    THEN <<>>
    ELSE ctx.template_config[1].variants[1]

\* The variants of the resolved definition that carry the requested name
NamedIndexes ==
    {i \in 1..Len(VariantsOf(context)) :
        /\ VariantsOf(context)[i].template = template_def[1].name
        /\ VariantsOf(context)[i].name = template_ref.variant[1]}

\* C1: an explicitly requested variant is the variant of the resolved
\* definition with that name; when there is none the call fails with
\* VariantNotFound and returns no text, never the base definition's rendering.
C1_ExplicitVariantOrVariantNotFound ==
    (pc = "done" /\ template_def # None /\ template_ref.variant # None) =>
        IF NamedIndexes = {}
        THEN /\ ~result[1].ok
             /\ result[1].error.kind = "VariantNotFound"
             /\ result[1].value = <<>>
        ELSE /\ result[1].ok
             /\ variant # None
             /\ variant[1].template = template_def[1].name
             /\ variant[1].name = template_ref.variant[1]
             /\ \E i \in NamedIndexes : variant[1] = VariantsOf(context)[i]
             /\ result[1] = generate_typst_document(context, template_def[1], variant, now)

\* The requested name exists, but only on a variant of another template.
C1_Witness ==
    /\ pc = "done"
    /\ template_def # None
    /\ template_ref.variant # None
    /\ NamedIndexes = {}
    /\ \E i \in 1..Len(VariantsOf(context)) :
          VariantsOf(context)[i].name = template_ref.variant[1]
    /\ ~result[1].ok

\* The variants that qualify on the implicit path
QualifyingIndexes ==
    LET course_type == resolve_course_type(context, context.template_config[1])
    IN  {i \in 1..Len(VariantsOf(context)) :
            /\ VariantsOf(context)[i].template = template_def[1].name
            /\ \/ contains(VariantsOf(context)[i].course_types, course_type)
               \/ contains(VariantsOf(context)[i].course_types, "all")}

FirstQualifyingIndex == CHOOSE i \in QualifyingIndexes : \A j \in QualifyingIndexes : i <= j

\* C2: without an explicit variant the variant used is the first qualifying
\* one in declaration order (an earlier "all" variant beats a later
\* type-specific one); with none qualifying the base definition is rendered
\* and nothing fails.
C2_FirstQualifyingVariant ==
    (pc = "done" /\ template_def # None /\ template_ref.variant = None) =>
        /\ result[1].ok
        /\ variant = IF QualifyingIndexes = {} THEN None
                     ELSE Some(VariantsOf(context)[FirstQualifyingIndex])
        /\ result[1] = generate_typst_document(context, template_def[1], variant, now)

\* An "all" variant declared before a variant listing the course type, the
\* type coming from a course_mapping pattern rather than the baseline.
C2_Witness ==
    /\ pc = "done"
    /\ template_def # None
    /\ template_ref.variant = None
    /\ QualifyingIndexes = {1, 2}
    /\ resolve_course_type(context, context.template_config[1]) = "math"
    /\ context.metadata.course_type # "math"
    /\ contains(VariantsOf(context)[1].course_types, "all")
    /\ contains(VariantsOf(context)[2].course_types, "math")
    /\ VariantsOf(context)[1] # VariantsOf(context)[2]
    /\ variant = Some(VariantsOf(context)[1])
    /\ result[1].ok

\* The definitions of the context's configuration whose name is the reference's
DefinitionIndexes ==
    {i \in 1..Len(context.template_config[1].templates) :
        context.template_config[1].templates[i].name = template_ref.name}

TemplateNotFound ==
    result # None /\ ~result[1].ok /\ result[1].error.kind = "TemplateNotFound"

\* C13: rendering fails with TemplateNotFound, producing no text, exactly when
\* no definition of template_config.templates has the reference's name (exact
\* string equality); otherwise the definition with that name is the one
\* rendered.
C13_TemplateNotFoundIffNoDefinition ==
    pc = "done" =>
        IF DefinitionIndexes = {}
        THEN /\ TemplateNotFound
             /\ result[1].value = <<>>
             /\ template_def = None
             /\ generator_calls = 0
        ELSE /\ ~TemplateNotFound
             /\ template_def # None
             /\ template_def[1].name = template_ref.name
             /\ \E i \in DefinitionIndexes :
                   template_def[1] = context.template_config[1].templates[i]
             /\ result[1].ok =>
                   result[1] = generate_typst_document(context, template_def[1], variant, now)

\* A reference that differs from a definition's name only in case: not found,
\* although definitions exist.
C13_Witness ==
    /\ pc = "done"
    /\ template_ref.name = "Note"
    /\ \E i \in 1..Len(context.template_config[1].templates) :
          context.template_config[1].templates[i].name = "note"
    /\ TemplateNotFound
    /\ generator_calls = 0

----------------------------------------------------------------------------
(* Specification of generate_typst_document on (context, definition, variant) *)

InitSections ==
    /\ pc = "generate"
    /\ \E sections \in Lists({"S1", "S2"}, MaxSections) :
            context = Context(<<"0", "1">>, sections,
                              Some(TemplateConfig(<<>>, None, None)), "general")
    /\ \E default_sections \in Lists({"Intro", "Notes"}, MaxSections) :
            template_def = Some(Definition("note", "dtu-note", default_sections))
    /\ \E function \in {None, Some("dtu-special")},
          override_sections \in {None} \cup {Some(l) : l \in Lists({"A", "B"}, MaxSections)},
          additional_sections \in {None} \cup {Some(l) : l \in Lists({"X"}, MaxSections)} :
            variant \in {None, Some(Variant("v1", "note", <<"all">>, function,
                                            override_sections, additional_sections))}
    /\ template_ref = TemplateReference("note")
    /\ now = FixedDate
    /\ course_id = <<>>
    /\ pattern = <<>>
    /\ matches = None
    /\ resolved = <<>>
    /\ result = None
    /\ builder = IdleBuilder
    /\ environment = Ok(<<>>)
    /\ issues = None
    /\ generator_calls = 0
    /\ NoCalls

NextSections == GenerateDocument

SpecSections == InitSections /\ [][NextSections]_vars

\* The position of the k-th "\n\n" piece of a text, 0 if there is none
RECURSIVE BlankLineAt(_, _, _)
BlankLineAt(text, k, from) ==
    IF from > Len(text) THEN 0
    ELSE IF text[from] = "\n\n"
         THEN IF k = 1 THEN from ELSE BlankLineAt(text, k - 1, from + 1)
         ELSE BlankLineAt(text, k, from + 1)

\* The body of a generated text: what follows the blank line after the
\* invocation line (import line, blank line, invocation line, blank line, body)
BodyOf(text) == SubSeq(text, BlankLineAt(text, 2, 1) + 1, Len(text))

\* The headings of a body, in order: the piece after each "= "
RECURSIVE HeadingsOf(_)
HeadingsOf(body) ==
    IF Len(body) < 2 THEN <<>>
    ELSE IF Head(body) = "= "
         THEN <<body[2]>> \o HeadingsOf(Tail(Tail(body)))
         ELSE HeadingsOf(Tail(body))

\* The sections the configuration yields: the override if the variant has
\* one, else the defaults followed by the variant's additional sections
ConfiguredSections ==
    IF variant # None /\ variant[1].override_sections # None
    THEN variant[1].override_sections[1]
    ELSE IF variant # None /\ variant[1].additional_sections # None
         THEN template_def[1].default_sections \o variant[1].additional_sections[1]
         ELSE template_def[1].default_sections

\* C8: with empty context.sections the sections rendered are the variant's
\* override_sections if it has them, else the definition's default_sections
\* followed by the variant's additional_sections if it has them, else the
\* default_sections alone.
C8_SectionsFromConfiguration ==
    (pc = "done" /\ context.sections = <<>>) =>
        /\ result[1].ok
        /\ HeadingsOf(BodyOf(result[1].value)) = ConfiguredSections

\* C8 witness: a variant with both lists; the override wins, the defaults
\* and the additions are ignored.
C8_Witness ==
    /\ pc = "done"
    /\ context.sections = <<>>
    /\ variant # None
    /\ variant[1].override_sections = Some(<<"A", "B">>)
    /\ variant[1].additional_sections = Some(<<"X">>)
    /\ template_def[1].default_sections = <<"Intro">>
    /\ HeadingsOf(BodyOf(result[1].value)) = <<"A", "B">>

\* C9: with non-empty context.sections the body is exactly one heading block
\* per entry, in the given order, each with an empty placeholder body; the
\* definition's and the variant's section lists play no part.
C9_BodyFromContextSections ==
    (pc = "done" /\ context.sections # <<>>) =>
        /\ result[1].ok
        /\ LET body == BodyOf(result[1].value)
           IN  /\ Len(body) = 3 * Len(context.sections)
               /\ \A i \in 1..Len(context.sections) :
                     /\ body[3 * i - 2] = "= "
                     /\ body[3 * i - 1] = context.sections[i]
                     /\ body[3 * i] = "\n\n"

C9_Witness ==
    /\ pc = "done"
    /\ context.sections = <<"S2", "S1">>
    /\ template_def[1].default_sections = <<"Intro", "Notes">>
    /\ variant # None
    /\ variant[1].override_sections = Some(<<"A">>)
    /\ HeadingsOf(BodyOf(result[1].value)) = <<"S2", "S1">>

\* C10 as claimed: after every successful generation the resolved list of
\* sections is non-empty.
C10_ResolvedSectionsNeverEmpty ==
    (pc = "done" /\ result[1].ok) => HeadingsOf(BodyOf(result[1].value)) # <<>>

\* C10 as amended: after a successful generation the resolved list of sections
\* is empty only if the context supplies no sections and the configured list
\* it falls back to (the override, else defaults plus additions) is empty.
C10_ResolvedSectionsEmptyOnlyIfConfiguredEmpty ==
    (pc = "done" /\ result[1].ok) =>
        /\ (context.sections = <<>> /\ variant = None) =>
              HeadingsOf(BodyOf(result[1].value)) = template_def[1].default_sections
        /\ (HeadingsOf(BodyOf(result[1].value)) = <<>>) <=>
              (context.sections = <<>> /\ ConfiguredSections = <<>>)

\* No context sections and no variant: the fallback to the default sections.
C10_Witness ==
    /\ pc = "done"
    /\ result[1].ok
    /\ context.sections = <<>>
    /\ variant = None
    /\ template_def[1].default_sections = <<"Intro", "Notes">>
    /\ HeadingsOf(BodyOf(result[1].value)) = <<"Intro", "Notes">>

RECURSIVE PositionOf(_, _, _)
PositionOf(text, piece, from) ==
    IF from > Len(text) THEN 0
    ELSE IF text[from] = piece THEN from ELSE PositionOf(text, piece, from + 1)

\* The function the invocation has to call
ExpectedFunction ==
    IF variant # None /\ variant[1].function # None
    THEN variant[1].function[1] ELSE template_def[1].function

\* The pieces of text that follow the piece at position p, as many as in value
Following(text, p, value) == SubSeq(text, p + 1, p + Len(value))

\* C12: the text is the import line, the invocation line and the body, in
\* that order, joined by blank lines; the invocation calls the variant's
\* function when the variant overrides it and the definition's function
\* otherwise, with the parameters course id, course name, title, date as a
\* year/month/day triple, author, semester, in that order.
C12_ImportInvocationBody ==
    pc = "done" =>
        /\ result[1].ok
        /\ LET text == result[1].value
               first == BlankLineAt(text, 1, 1)
               second == BlankLineAt(text, 2, 1)
               import == SubSeq(text, 1, first - 1)
               invocation == SubSeq(text, first + 1, second - 1)
               body == SubSeq(text, second + 1, Len(text))
               course == PositionOf(invocation, "course: \"", 1)
               course_name == PositionOf(invocation, "course-name: \"", 1)
               title == PositionOf(invocation, "title: \"", 1)
               year == PositionOf(invocation, "date: datetime(year: ", 1)
               month == PositionOf(invocation, ", month: ", 1)
               day == PositionOf(invocation, ", day: ", 1)
               author == PositionOf(invocation, "author: \"", 1)
               semester == PositionOf(invocation, "semester: \"", 1)
           IN  /\ 1 < first /\ first + 1 < second
               /\ import = <<"#import \"@local/", context.template_config[1].metadata.name,
                              ":", context.template_config[1].metadata.version, "\":*">>
               /\ invocation[1] = "#show: "
               /\ invocation[2] = ExpectedFunction
               /\ invocation[3] = ".with(\n  "
               /\ invocation[Len(invocation)] = "\n)"
               /\ 3 < course /\ course < course_name /\ course_name < title
               /\ title < year /\ year < month /\ month < day
               /\ day < author /\ author < semester
               /\ Following(invocation, course, context.course_id) = context.course_id
               /\ Following(invocation, course_name, <<1>>) = <<context.course_name>>
               /\ Following(invocation, title, <<1>>) = <<context.title>>
               /\ Following(invocation, year, to_string(now.year)) = to_string(now.year)
               /\ Following(invocation, month, to_string(now.month)) = to_string(now.month)
               /\ Following(invocation, day, to_string(now.day)) = to_string(now.day)
               /\ Following(invocation, author, <<1>>) = <<context.author>>
               /\ Following(invocation, semester, context.semester) = context.semester
               /\ body = IF context.sections # <<>>
                         THEN headings(context.sections)
                         ELSE separated_headings(ConfiguredSections, 1)

\* A variant that overrides the function: the invocation calls it, not the
\* definition's function.
C12_Witness ==
    /\ pc = "done"
    /\ result[1].ok
    /\ variant # None
    /\ variant[1].function = Some("dtu-special")
    /\ template_def[1].function = "dtu-note"
    /\ result[1].value[BlankLineAt(result[1].value, 1, 1) + 2] = "dtu-special"

----------------------------------------------------------------------------
(* Config, TemplateContextBuilder and context construction *)

\* SemesterFormat: YearSeason, SeasonYear, ShortForm or Custom(pattern); the
\* pattern is the sequence of its pieces, a piece being a token in braces or
\* a literal
SemesterFormat(style, custom) == [style |-> style, pattern |-> custom]

\* Config as the template system reads it, with the default SemesterFormat
Config(author, courses) ==
    [author |-> author, courses |-> courses,
     semester_format |-> SemesterFormat("YearSeason", <<>>)]

\* Config::get_course_name
get_course_name(config, id) ==
    IF id \in DOMAIN config.courses THEN config.courses[id] ELSE ""

\* format!("{:02}", n) for n < 100, as %m and %d write it
two_digits(n) == IF n < 10 THEN <<"0">> \o to_string(n) ELSE to_string(n)

\* str::replace over the pieces of a text: every piece equal to from becomes to
RECURSIVE replace(_, _, _)
replace(text, from, to) ==
    IF text = <<>> THEN <<>>
    ELSE (IF Head(text) = from THEN to ELSE <<Head(text)>>) \o replace(Tail(text), from, to)

\* Config::format_semester
format_semester(config, year, is_spring) ==
    CASE config.semester_format.style = "YearSeason" ->
            to_string(year) \o <<" ", IF is_spring THEN "Spring" ELSE "Fall">>
      [] config.semester_format.style = "SeasonYear" ->
            <<IF is_spring THEN "Spring" ELSE "Fall", " ">> \o to_string(year)
      [] config.semester_format.style = "ShortForm" ->
            <<IF is_spring THEN "S" ELSE "F">> \o to_string(year % 100)
      [] config.semester_format.style = "Custom" ->
            replace(replace(replace(replace(config.semester_format.pattern,
                                            "{}", to_string(year)),
                                    "{season}", <<IF is_spring THEN "Spring" ELSE "Fall">>),
                            "{s}", <<IF is_spring THEN "S" ELSE "F">>),
                    "{yy}", two_digits(year % 100))

\* StatusManager::get_current_semester
get_current_semester(config, clock) ==
    format_semester(config, clock.year, clock.month <= 6)

\* Local::now().format("%Y-%m-%d")
format_date(clock) ==
    to_string(clock.year) \o <<"-">> \o two_digits(clock.month)
                          \o <<"-">> \o two_digits(clock.day)

\* str::starts_with
starts_with(s, prefix) ==
    Len(s) >= Len(prefix) /\ SubSeq(s, 1, Len(prefix)) = prefix

\* TemplateContext::determine_course_type
determine_course_type(id) ==
    IF starts_with(id, <<"0", "1">>) THEN "math"
    ELSE IF starts_with(id, <<"0", "2">>) THEN "programming"
    ELSE IF starts_with(id, <<"2", "5">>) THEN "physics"
    ELSE IF starts_with(id, <<"2", "2">>) THEN "electronics"
    ELSE IF starts_with(id, <<"2", "8">>) THEN "environment"
    ELSE IF starts_with(id, <<"3", "1">>) THEN "mechanics"
    ELSE "general"

\* The baseline course type of a custom context: the static classification
\* over the leading digits of the course id, "general" when none applies
baseline_course_type(template_config, id) == determine_course_type(id)

\* HashMap::extend that keeps the entry already present on a shared key
extend_keeping(a, b) ==
    [k \in DOMAIN a \cup DOMAIN b |-> IF k \in DOMAIN a THEN a[k] ELSE b[k]]

\* HashMap::extend: the entries of b added to a, b winning on a shared key
extend(a, b) ==
    [k \in DOMAIN a \cup DOMAIN b |-> IF k \in DOMAIN b THEN b[k] ELSE a[k]]

\* TemplateContext::build_builtin_variables
build_builtin_variables(id, title, author, semester, clock) ==
    [k \in {"course_id", "title", "author", "semester", "date", "year"} |->
        CASE k = "course_id" -> id
          [] k = "title" -> title
          [] k = "author" -> author
          [] k = "semester" -> semester
          [] k = "date" -> format_date(clock)
          [] k = "year" -> to_string(clock.year)]

\* TemplateContext::build_custom_context
build_custom_context(id, config, template_config, clock) ==
    LET semester == get_current_semester(config, clock)
    IN  [course_id |-> id,
         course_name |-> get_course_name(config, id),
         title |-> "",
         author |-> config.author,
         date |-> format_date(clock),
         semester |-> semester,
         sections |-> <<>>,
         custom_fields |-> <<>>,
         template_config |-> Some(template_config),
         engine_config |-> IF template_config.engine = None THEN DefaultEngineConfig
                           ELSE template_config.engine[1],
         variables |-> build_builtin_variables(id, "", config.author, semester, clock),
         metadata |-> [course_type |-> baseline_course_type(template_config, id),
                       template_source |-> "custom",
                       variant_used |-> None]]

\* TemplateContextBuilder::new
NewContextBuilder ==
    [course_id |-> None, config |-> None, template_config |-> None, title |-> None,
     custom_fields |-> <<>>, sections |-> None, variables |-> <<>>]

\* TemplateContextBuilder::build that also insists on a template configuration
context_builder_build_strict(cb, clock) ==
    IF cb.course_id = None THEN Err("MissingRequiredField", <<"course_id">>)
    ELSE IF cb.config = None THEN Err("MissingRequiredField", <<"config">>)
    ELSE IF cb.template_config = None THEN Err("MissingRequiredField", <<"template_config">>)
    ELSE LET ctx == build_custom_context(cb.course_id[1], cb.config[1],
                                         cb.template_config[1], clock)
         IN  Ok([ctx EXCEPT
                   !.title = IF cb.title # None THEN cb.title[1] ELSE @,
                   !.sections = IF cb.sections # None THEN cb.sections[1] ELSE @,
                   !.custom_fields = extend(@, cb.custom_fields),
                   !.variables = extend(@, cb.variables)])

\* TemplateContextBuilder::build reading the caller's Config instead of its copy
context_builder_build_live(cb, clock) ==
    IF cb.course_id = None THEN Err("MissingRequiredField", <<"course_id">>)
    ELSE IF cb.config = None THEN Err("MissingRequiredField", <<"config">>)
    ELSE LET template_config == IF cb.template_config = None THEN DefaultTemplateConfig
                                ELSE cb.template_config[1]
             ctx == build_custom_context(cb.course_id[1], live_config[1], template_config, clock)
         IN  Ok([ctx EXCEPT
                   !.title = IF cb.title # None THEN cb.title[1] ELSE @,
                   !.sections = IF cb.sections # None THEN cb.sections[1] ELSE @,
                   !.custom_fields = extend(@, cb.custom_fields),
                   !.variables = extend(@, cb.variables)])

\* TemplateContextBuilder::build
context_builder_build(cb, clock) ==
    IF cb.course_id = None THEN Err("MissingRequiredField", <<"course_id">>)
    ELSE IF cb.config = None THEN Err("MissingRequiredField", <<"config">>)
    ELSE LET template_config == IF cb.template_config = None THEN DefaultTemplateConfig
                                ELSE cb.template_config[1]
             ctx == build_custom_context(cb.course_id[1], cb.config[1], template_config, clock)
         IN  Ok([ctx EXCEPT
                   !.title = IF cb.title # None THEN cb.title[1] ELSE @,
                   !.sections = IF cb.sections # None THEN cb.sections[1] ELSE @,
                   !.custom_fields = extend(@, cb.custom_fields),
                   !.variables = extend(@, cb.variables)])

\* apply_transformations whose loop body rewrites the title
apply_transformations_rewriting(ctx) ==
    Ok([ctx EXCEPT !.title = IF ctx.engine_config.variables.transformations = <<>>
                             THEN @ ELSE "TRANSFORMED"])

\* apply_transformations that marks the title once a call has returned
apply_transformations_remembering(ctx) ==
    Ok([ctx EXCEPT !.title = IF returned = <<>> THEN @ ELSE "again"])

\* TemplateContext::apply_transformations: the loop over the configured
\* transformations has an empty body
apply_transformations(ctx) == Ok(ctx)

----------------------------------------------------------------------------
(* TemplateBuilder *)

\* impl Default for ProcessingOptions
\* A Default for ProcessingOptions that fails the build on Error issues
DefaultProcessingOptionsFailing ==
    [validate_before_build |-> TRUE,
     apply_transformations |-> TRUE,
     include_debug_info |-> FALSE,
     validation_level |-> "Standard",
     fail_on_validation_errors |-> TRUE]

DefaultProcessingOptions ==
    [validate_before_build |-> TRUE,
     apply_transformations |-> TRUE,
     include_debug_info |-> FALSE,
     validation_level |-> "Standard",
     fail_on_validation_errors |-> FALSE]

\* TemplateBuilder::new, given the template configuration that
\* TemplateDiscovery::load_template_config loaded
NewTemplateBuilder(id, config, template_config) ==
    [configured |-> TRUE,
     context_builder |-> [NewContextBuilder EXCEPT !.course_id = Some(id),
                                                   !.config = Some(config),
                                                   !.template_config = Some(template_config)],
     template_reference |-> TemplateReference("note"),
     variant_override |-> None,
     processing_options |-> DefaultProcessingOptions]

Issue(severity, category, message, location) ==
    [severity |-> severity, category |-> category, message |-> message,
     location |-> location]

\* The issue raised for each required variable the context does not hold
RECURSIVE missing_variable_issues(_, _)
missing_variable_issues(required, variables) ==
    IF required = <<>> THEN <<>>
    ELSE (IF Head(required) \in DOMAIN variables THEN <<>>
          ELSE <<Issue("Error", "variables", "required variable is missing",
                       Some(Head(required)))>>)
         \o missing_variable_issues(Tail(required), variables)

\* TemplateValidator::validate_template_context: the structural checks
validate_template_context(ctx, def, var) ==
    Ok((IF ctx.author = "" THEN <<Issue("Warning", "context", "author is empty", None)>> ELSE <<>>)
       \o (IF ctx.course_name = ""
           THEN <<Issue("Warning", "context", "course name not found", None)>> ELSE <<>>)
       \o (IF ctx.engine_config.validation.validate_variables
           THEN missing_variable_issues(ctx.engine_config.variables.builtin_variables,
                                        ctx.variables)
           ELSE <<>>))

\* TemplateValidator::validate_system: the checks of the configured paths,
\* whose outcome the machine decides
validate_system(config, env) == env

\* TemplateValidator::validate_template_config: every variant names a known
\* definition, and no two definitions share a name
validate_template_config(template_config) ==
    LET templates == template_config.templates
        variants == IF template_config.variants = None THEN <<>>
                    ELSE template_config.variants[1]
        unknown == SelectSeq(variants,
                       LAMBDA v : ~\E i \in 1..Len(templates) : templates[i].name = v.template)
        duplicated == \E i, j \in 1..Len(templates) :
                         i # j /\ templates[i].name = templates[j].name
    IN  Ok([i \in 1..Len(unknown) |->
               Issue("Error", "template_config", "variant of an unknown template",
                     Some(unknown[i].name))]
           \o (IF duplicated
               THEN <<Issue("Error", "template_config", "duplicate template name", None)>>
               ELSE <<>>))

\* TemplateBuilder::find_template_definition
find_template_definition(config, reference) ==
    LET found == FirstWhere(config.templates, LAMBDA t : t.name = reference.name)
    IN  IF found = None THEN Err("TemplateNotFound", <<reference.name>>) ELSE Ok(found[1])

\* TemplateBuilder::find_template_variant
find_template_variant(b, config, def) ==
    IF b.variant_override # None
    THEN LET variants == IF config.variants = None THEN <<>> ELSE config.variants[1]
             found == FirstWhere(variants, LAMBDA v : /\ v.name = b.variant_override[1]
                                                      /\ v.template = def.name)
         IN  IF found # None THEN Ok(found)
             ELSE Err("VariantNotFound", <<b.variant_override[1], def.name>>)
    ELSE Ok(None)

\* Vec<ValidationIssue> filtered by severity
OfSeverity(list, severity) == SelectSeq(list, LAMBDA i : i.severity = severity)

\* validate_template whose Minimal level keeps the issues of every severity
validate_template_minimal_unfiltered(b, ctx, env) ==
    IF ctx.template_config = None THEN Err("ConfigurationAbsent", <<>>)
    ELSE
    LET template_config == ctx.template_config[1]
        def == find_template_definition(template_config, b.template_reference)
        var == find_template_variant(b, template_config, def.value)
        context_issues == validate_template_context(ctx, def.value, var.value).value
        level == b.processing_options.validation_level
        system == validate_system(b.context_builder.config[1], env)
        config_issues == validate_template_config(template_config)
    IN  IF ~def.ok THEN def
        ELSE IF ~var.ok THEN var
        ELSE IF level \in {"Minimal", "Standard"} THEN Ok(context_issues)
        ELSE Ok(context_issues
                \o (IF system.ok THEN system.value ELSE <<>>)
                \o (IF config_issues.ok THEN config_issues.value ELSE <<>>))

\* validate_template whose Comprehensive level runs the additional checks
\* in place of the structural ones
validate_template_comprehensive_alone(b, ctx, env) ==
    IF ctx.template_config = None THEN Err("ConfigurationAbsent", <<>>)
    ELSE
    LET template_config == ctx.template_config[1]
        def == find_template_definition(template_config, b.template_reference)
        var == find_template_variant(b, template_config, def.value)
        context_issues == validate_template_context(ctx, def.value, var.value).value
        level == b.processing_options.validation_level
        system == validate_system(b.context_builder.config[1], env)
        config_issues == validate_template_config(template_config)
    IN  IF ~def.ok THEN def
        ELSE IF ~var.ok THEN var
        ELSE IF level = "Minimal" THEN Ok(OfSeverity(context_issues, "Error"))
        ELSE IF level = "Standard" THEN Ok(context_issues)
        ELSE Ok((IF system.ok THEN system.value ELSE <<>>)
                \o (IF config_issues.ok THEN config_issues.value ELSE <<>>))

\* TemplateBuilder::validate_template
validate_template(b, ctx, env) ==
    IF ctx.template_config = None THEN Err("ConfigurationAbsent", <<>>)
    ELSE
    LET template_config == ctx.template_config[1]
        def == find_template_definition(template_config, b.template_reference)
        var == find_template_variant(b, template_config, def.value)
        context_issues == validate_template_context(ctx, def.value, var.value).value
        level == b.processing_options.validation_level
        system == validate_system(b.context_builder.config[1], env)
        config_issues == validate_template_config(template_config)
    IN  IF ~def.ok THEN def
        ELSE IF ~var.ok THEN var
        ELSE IF level = "Minimal" THEN Ok(OfSeverity(context_issues, "Error"))
        ELSE IF level = "Standard" THEN Ok(context_issues)
        ELSE IF b.context_builder.config # None
             THEN Ok(context_issues
                     \o (IF system.ok THEN system.value ELSE <<>>)
                     \o (IF config_issues.ok THEN config_issues.value ELSE <<>>))
             ELSE Ok(context_issues)

\* The "category: message" line of each issue
error_messages(errors) == [i \in 1..Len(errors) |-> <<errors[i].category, errors[i].message>>]

\* handle_validation_issues that never fails the build
handle_validation_issues_lenient(options, list) == Ok(<<>>)

\* handle_validation_issues that fails on any issue, warnings included
handle_validation_issues_strict(options, list) ==
    IF list # <<>> /\ options.fail_on_validation_errors
    THEN Err("ValidationFailed", error_messages(list))
    ELSE Ok(<<>>)

\* TemplateBuilder::handle_validation_issues
handle_validation_issues(options, list) ==
    LET errors == OfSeverity(list, "Error")
    IN  IF errors # <<>> /\ options.fail_on_validation_errors
        THEN Err("ValidationFailed", error_messages(errors))
        ELSE Ok(<<>>)

\* TemplateEngine::render_template as one call
render_template(ctx, ref, clock) ==
    LET def == get_template_definition(ctx, ref)
        var == select_variant_for_template(ctx, def.value, ref)
    IN  IF ~def.ok THEN def
        ELSE IF ~var.ok THEN var
        ELSE generate_typst_document(ctx, def.value, var.value, clock)

----------------------------------------------------------------------------
(* TemplateBuilder: the fluent setters and build(), step by step *)

Configuring == pc = "configure" /\ builder.configured

BuilderUnchanged ==
    UNCHANGED <<pc, course_id, pattern, matches, context, now, template_ref, resolved,
                template_def, variant, result, environment, issues, generator_calls,
                op, steps, caller>>

\* TemplateBuilder::with_reference
WithReference ==
    /\ Configuring
    /\ \E ref \in {TemplateReference("assignment"), TemplateReference("thesis"),
                   with_variant(TemplateReference("note"), "v2")} :
          builder' = [builder EXCEPT !.template_reference = ref]
    /\ BuilderUnchanged

\* TemplateBuilder::with_variant
WithVariant ==
    /\ Configuring
    /\ \E name \in {"v1"} : builder' = [builder EXCEPT !.variant_override = Some(name)]
    /\ BuilderUnchanged

\* The ProcessingOptions values a caller hands to with_processing_options
SuppliedOptions ==
    {[DefaultProcessingOptions EXCEPT
         !.validation_level = "Comprehensive",
         !.fail_on_validation_errors = TRUE,
         !.apply_transformations = FALSE]}

\* TemplateBuilder::with_processing_options
WithProcessingOptions ==
    /\ Configuring
    /\ \E options \in SuppliedOptions :
          builder' = [builder EXCEPT !.processing_options = options]
    /\ BuilderUnchanged

\* TemplateBuilder::with_validation
WithValidation ==
    /\ Configuring
    /\ \E enabled \in BOOLEAN :
          builder' = [builder EXCEPT !.processing_options.validate_before_build = enabled]
    /\ BuilderUnchanged

\* TemplateBuilder::with_validation_level
WithValidationLevel ==
    /\ Configuring
    /\ \E level \in {"Minimal", "Standard", "Comprehensive"} :
          builder' = [builder EXCEPT !.processing_options.validation_level = level]
    /\ BuilderUnchanged

\* TemplateBuilder::with_fail_on_errors
WithFailOnErrors ==
    /\ Configuring
    /\ \E fail \in BOOLEAN :
          builder' = [builder EXCEPT !.processing_options.fail_on_validation_errors = fail]
    /\ BuilderUnchanged

\* TemplateBuilder::with_transformations
WithTransformations ==
    /\ Configuring
    /\ \E enabled \in BOOLEAN :
          builder' = [builder EXCEPT !.processing_options.apply_transformations = enabled]
    /\ BuilderUnchanged

\* TemplateBuilder::with_debug_info
WithDebugInfo ==
    /\ Configuring
    /\ \E enabled \in BOOLEAN :
          builder' = [builder EXCEPT !.processing_options.include_debug_info = enabled]
    /\ BuilderUnchanged

\* build(): let mut context = self.context_builder.clone().build()?
BuildContext ==
    /\ Configuring \/ pc = "build"
    /\ op' = IF pc = "configure" THEN "build" ELSE op
    /\ steps' = Append(steps, "context")
    /\ LET r == context_builder_build(builder.context_builder, now)
       IN  IF r.ok
           THEN /\ context' = r.value
                /\ pc' = "validate"
                /\ UNCHANGED result
           ELSE /\ result' = Some(r)
                /\ pc' = "done"
                /\ UNCHANGED context
    /\ UNCHANGED <<course_id, pattern, matches, now, template_ref, resolved, template_def,
                   variant, builder, environment, issues, generator_calls, caller>>

\* The validation block of a build() that goes on after the issues made it fail
ValidateAndContinue ==
    /\ pc = "validate"
    /\ IF ~builder.processing_options.validate_before_build
       THEN /\ pc' = "transform"
            /\ UNCHANGED <<issues, result>>
       ELSE LET validation_result == validate_template(builder, context, environment)
                handled == IF validation_result.value # <<>>
                           THEN handle_validation_issues(builder.processing_options,
                                                         validation_result.value)
                           ELSE Ok(<<>>)
            IN  IF ~validation_result.ok
                THEN /\ result' = Some(validation_result)
                     /\ pc' = "done"
                     /\ UNCHANGED issues
                ELSE /\ issues' = Some(validation_result.value)
                     /\ pc' = "transform"
                     /\ IF handled.ok THEN UNCHANGED result ELSE result' = Some(handled)
    /\ steps' = IF builder.processing_options.validate_before_build
                 THEN Append(steps, "validate") ELSE steps
    /\ UNCHANGED <<course_id, pattern, matches, context, now, template_ref, resolved,
                   template_def, variant, builder, environment, generator_calls,
                   op, caller>>

\* build(): the validation block, skipped unless validate_before_build
ValidateBeforeBuild ==
    /\ pc = "validate"
    /\ IF ~builder.processing_options.validate_before_build
       THEN /\ pc' = "transform"
            /\ UNCHANGED <<issues, result>>
       ELSE LET validation_result == validate_template(builder, context, environment)
                handled == IF validation_result.value # <<>>
                           THEN handle_validation_issues(builder.processing_options,
                                                         validation_result.value)
                           ELSE Ok(<<>>)
            IN  IF ~validation_result.ok
                THEN /\ result' = Some(validation_result)
                     /\ pc' = "done"
                     /\ UNCHANGED issues
                ELSE /\ issues' = Some(validation_result.value)
                     /\ IF handled.ok
                        THEN pc' = "transform" /\ UNCHANGED result
                        ELSE pc' = "done" /\ result' = Some(handled)
    /\ steps' = IF builder.processing_options.validate_before_build
                 THEN Append(steps, "validate") ELSE steps
    /\ UNCHANGED <<course_id, pattern, matches, context, now, template_ref, resolved,
                   template_def, variant, builder, environment, generator_calls,
                   op, caller>>

\* build(): the transformations, if enabled, then the template reference
\* with the variant override applied
ApplyTransformations ==
    /\ pc = "transform"
    /\ LET r == IF builder.processing_options.apply_transformations
                THEN apply_transformations(context) ELSE Ok(context)
       IN  IF r.ok
           THEN /\ context' = r.value
                /\ template_ref' = IF builder.variant_override # None
                                   THEN with_variant(builder.template_reference,
                                                     builder.variant_override[1])
                                   ELSE builder.template_reference
                /\ pc' = "render"
                /\ UNCHANGED result
           ELSE /\ result' = Some(r)
                /\ pc' = "done"
                /\ UNCHANGED <<context, template_ref>>
    /\ steps' = IF builder.processing_options.apply_transformations
                 THEN Append(steps, "transform") ELSE steps
    /\ UNCHANGED <<course_id, pattern, matches, now, resolved, template_def, variant,
                   builder, environment, issues, generator_calls, op, caller>>

----------------------------------------------------------------------------
(* Specification of the builder: configuration, then one build() *)

BuilderVariants ==
    {None,
     Some(<<Variant("v1", "note", <<"math">>, None, None, Some(<<"X">>))>>),
     Some(<<Variant("v1", "ghost", <<"all">>, Some("dtu-special"), Some(<<"A">>), None)>>),
     Some(<<Variant("v1", "note", <<"physics">>, Some("dtu-special"), None, None)>>)}

BuilderEngines ==
    {None,
     Some(EngineConfig(FALSE, <<"reviewer">>)),
     Some(EngineConfig(TRUE, <<"course_id", "reviewer">>)),
     Some(EngineConfig(TRUE, <<"reviewer", "grader">>)),
     Some([EngineConfig(TRUE, <<"course_id">>)
              EXCEPT !.variables.transformations = <<"uppercase", "date">>])}

Environments ==
    {Err("SystemCheckFailed", <<>>),
     Ok(<<Issue("Info", "system", "templates directory is empty", None)>>),
     Ok(<<Issue("Warning", "system", "notes directory not found", None),
          Issue("Error", "system", "templates directory not found", None)>>)}

Init ==
    /\ pc = "configure"
    /\ \E author \in {"", "Author"},
          courses \in {[id \in {} |-> ""], [id \in {<<"0", "1">>} |-> "Mathematics 1"]},
          variants \in BuilderVariants,
          engine \in BuilderEngines :
            builder = NewTemplateBuilder(
                          <<"0", "1">>,
                          Config(author, courses),
                          [TemplateConfig(<<NoteDefinition, AssignmentDefinition>>,
                                          variants, None) EXCEPT !.engine = engine])
    /\ environment \in Environments
    /\ now = FixedDate
    /\ context = IdleContext
    /\ template_ref = TemplateReference("note")
    /\ course_id = <<>>
    /\ pattern = <<>>
    /\ matches = None
    /\ resolved = <<>>
    /\ template_def = None
    /\ variant = None
    /\ result = None
    /\ issues = None
    /\ generator_calls = 0
    /\ op = "none"
    /\ steps = <<>>
    /\ outer = None
    /\ returned = <<>>
    /\ live_config = builder.context_builder.config
    /\ other = None

Next ==
    \/ WithReference
    \/ WithVariant
    \/ WithProcessingOptions
    \/ WithValidation
    \/ WithValidationLevel
    \/ WithFailOnErrors
    \/ WithTransformations
    \/ WithDebugInfo
    \/ BuildContext
    \/ ValidateBeforeBuild
    \/ ApplyTransformations
    \/ GetTemplateDefinition
    \/ SelectVariant
    \/ GenerateDocument

Spec == Init /\ [][Next]_vars

ErrorCount(list) == Len(OfSeverity(list, "Error"))

FailOnErrors == builder.processing_options.fail_on_validation_errors

ValidationFailed ==
    result # None /\ ~result[1].ok /\ result[1].error.kind = "ValidationFailed"

\* C6: with fail_on_validation_errors set and at least one Error issue
\* present, build() returns ValidationFailed carrying the number of Error
\* issues, and the generator is never invoked in that call.
C6_ErrorsAbortBeforeRendering ==
    (issues # None /\ FailOnErrors /\ ErrorCount(issues[1]) >= 1) =>
        /\ pc = "done"
        /\ ValidationFailed
        /\ Len(result[1].error.args) = ErrorCount(issues[1])
        /\ result[1].value = <<>>
        /\ generator_calls = 0

\* Two Error issues beside a Warning: the failure carries two.
C6_Witness ==
    /\ pc = "done"
    /\ issues # None
    /\ FailOnErrors
    /\ ErrorCount(issues[1]) = 2
    /\ Len(issues[1]) > 2
    /\ ValidationFailed
    /\ Len(result[1].error.args) = 2
    /\ generator_calls = 0

\* C7: validation aborts a build only if fail_on_validation_errors is set and
\* an Error issue is present; with Warning and Info issues alone, or with
\* fail_on_validation_errors false, the build goes on to render.
C7_OnlyErrorsAbort ==
    /\ ValidationFailed => (issues # None /\ FailOnErrors /\ ErrorCount(issues[1]) >= 1)
    /\ (pc = "done" /\ issues # None /\ ~(FailOnErrors /\ ErrorCount(issues[1]) >= 1)) =>
          /\ result[1] = render_template(context, template_ref, now)
          /\ result[1].ok => generator_calls = 1

\* Error, Warning and Info issues all present, fail_on_validation_errors false:
\* the text is generated.
C7_Witness ==
    /\ pc = "done"
    /\ issues # None
    /\ ~FailOnErrors
    /\ ErrorCount(issues[1]) >= 1
    /\ OfSeverity(issues[1], "Warning") # <<>>
    /\ OfSeverity(issues[1], "Info") # <<>>
    /\ result[1].ok
    /\ generator_calls = 1

\* The steps of build() in the order of its code
StepOrder == <<"context", "validate", "transform", "definition", "variant", "generate">>

StepRank(step) == CHOOSE k \in 1..Len(StepOrder) : StepOrder[k] = step

Ran(step) == \E i \in 1..Len(steps) : steps[i] = step

OptionFields ==
    {"validate_before_build", "apply_transformations", "include_debug_info",
     "validation_level", "fail_on_validation_errors"}

\* The options a step of the configuration changes
ChangedOptions ==
    {field \in OptionFields :
        builder'.processing_options[field] # builder.processing_options[field]}

UntouchedOptions ==
    /\ builder.processing_options.validate_before_build = TRUE
    /\ builder.processing_options.apply_transformations = TRUE
    /\ builder.processing_options.include_debug_info = FALSE
    /\ builder.processing_options.validation_level = "Standard"
    /\ builder.processing_options.fail_on_validation_errors = FALSE

\* C25: a builder starts with validate_before_build = true,
\* apply_transformations = true, include_debug_info = false, validation_level
\* = Standard and fail_on_validation_errors = false; a step that changes the
\* options changes one option alone (or puts a whole supplied ProcessingOptions
\* in place) and nothing else of the builder; and a build() that ran with
\* these options validated and was not aborted by validation issues.
C25_DefaultOptionsValidateWithoutAborting ==
    /\ UntouchedOptions
    /\ [][builder'.processing_options # builder.processing_options =>
             /\ Cardinality(ChangedOptions) = 1
                   \/ builder'.processing_options \in SuppliedOptions
             /\ [builder' EXCEPT !.processing_options = builder.processing_options]
                   = builder]_vars
    /\ []((pc = "done" /\ UntouchedOptions) =>
             /\ Ran("validate")
             /\ ~ValidationFailed
             /\ issues # None => result[1] = render_template(context, template_ref, now))

\* Untouched options, an Error issue found, and the text still generated.
C25_Witness ==
    /\ pc = "done"
    /\ UntouchedOptions
    /\ issues # None
    /\ ErrorCount(issues[1]) >= 1
    /\ result[1].ok
    /\ generator_calls = 1

\* C14: within one build() the steps run in the order context construction,
\* validation (if enabled), transformation (if enabled), variant resolution,
\* rendering; nothing runs after a step has failed, so neither transformation
\* nor variant resolution nor rendering runs after validation aborts.
C14_StepsInOrder ==
    /\ \A i, j \in 1..Len(steps) : i < j => StepRank(steps[i]) < StepRank(steps[j])
    /\ steps # <<>> => steps[1] = "context"
    /\ Ran("validate") => builder.processing_options.validate_before_build
    /\ Ran("transform") => builder.processing_options.apply_transformations
    /\ (Ran("definition") /\ builder.processing_options.validate_before_build) =>
          Ran("validate")
    /\ (Ran("definition") /\ builder.processing_options.apply_transformations) =>
          Ran("transform")
    /\ Ran("generate") => (Ran("definition") /\ Ran("variant"))
    /\ (result # None /\ ~result[1].ok) =>
          /\ pc = "done"
          /\ ~Ran("generate")
          /\ generator_calls = 0
    /\ ValidationFailed =>
          /\ steps = <<"context", "validate">>
          /\ template_def = None
          /\ variant = None
    /\ (result # None /\ result[1].ok) =>
          /\ pc = "done"
          /\ steps[Len(steps)] = "generate"

\* A build() with validation and transformations enabled that returns text:
\* all the steps, in order.
C14_Witness ==
    /\ pc = "done"
    /\ result[1].ok
    /\ steps = StepOrder
    /\ issues # None
    /\ issues[1] # <<>>

----------------------------------------------------------------------------
(* TemplateBuilder: validate(), and the record of what the calls returned *)

\* TemplateBuilder::validate
validate(b, env, clock) ==
    LET ctx == context_builder_build(b.context_builder, clock)
    IN  IF ~ctx.ok THEN ctx ELSE validate_template(b, ctx.value, env)

\* What the caller keeps of a call: the method, the clock reading during the
\* call, the value returned, how often the generator ran, the caller's own
\* Config value and the builder as they are when the call returns
Returned(method, value, renders) ==
    [op |-> method, clock |-> now, result |-> value, renders |-> renders,
     live |-> live_config, builder |-> builder]

\* The caller calls validate()
CallValidate ==
    /\ Configuring
    /\ Len(returned) < MaxCalls
    /\ returned' = Append(returned, Returned("validate", validate(builder, environment, now), 0))
    /\ UNCHANGED <<pc, course_id, pattern, matches, context, now, template_ref, resolved,
                   template_def, variant, result, builder, environment, issues,
                   generator_calls, op, steps, outer, live_config, other>>

----------------------------------------------------------------------------
(* Specification of validate() on a configured builder *)

ValidateTemplates ==
    {<<NoteDefinition, AssignmentDefinition>>,
     <<NoteDefinition, AssignmentDefinition, Definition("note", "dtu-other", <<"Other">>)>>}

InitValidate ==
    /\ pc = "configure"
    /\ \E author \in {"", "Author"},
          courses \in {[id \in {} |-> ""], [id \in {<<"0", "1">>} |-> "Mathematics 1"]},
          templates \in ValidateTemplates,
          variants \in BuilderVariants,
          engine \in BuilderEngines,
          level \in {"Minimal", "Standard", "Comprehensive"},
          reference \in {TemplateReference("note"), TemplateReference("thesis")},
          variant_override \in {None, Some("v1")} :
            builder = [NewTemplateBuilder(
                           <<"0", "1">>,
                           Config(author, courses),
                           [TemplateConfig(templates, variants, None) EXCEPT !.engine = engine])
                       EXCEPT !.processing_options.validation_level = level,
                              !.template_reference = reference,
                              !.variant_override = variant_override]
    /\ environment \in Environments
    /\ now = FixedDate
    /\ context = IdleContext
    /\ template_ref = TemplateReference("note")
    /\ course_id = <<>>
    /\ pattern = <<>>
    /\ matches = None
    /\ resolved = <<>>
    /\ template_def = None
    /\ variant = None
    /\ result = None
    /\ issues = None
    /\ generator_calls = 0
    /\ op = "none"
    /\ steps = <<>>
    /\ outer = None
    /\ returned = <<>>
    /\ live_config = builder.context_builder.config
    /\ other = None

NextValidate == CallValidate

SpecValidate == InitValidate /\ [][NextValidate]_vars

\* The builder with another validation level
AtLevel(level) == [builder EXCEPT !.processing_options.validation_level = level]

Level == builder.processing_options.validation_level

\* The successful validate() calls among those made so far
Validations ==
    {k \in 1..Len(returned) : returned[k].op = "validate" /\ returned[k].result.ok}

\* C15: validate() at Minimal level returns exactly the Error issues of the
\* structural checks, that is what Standard returns without its Warning and
\* Info issues; it never returns a Warning or an Info issue.
C15_MinimalKeepsOnlyErrors ==
    Level = "Minimal" =>
        \A k \in Validations :
            LET standard == validate(AtLevel("Standard"), environment, returned[k].clock)
            IN  /\ standard.ok
                /\ returned[k].result.value = OfSeverity(standard.value, "Error")
                /\ \A i \in 1..Len(returned[k].result.value) :
                      returned[k].result.value[i].severity = "Error"

\* Standard finds Warnings beside an Error; Minimal returns the Error alone.
C15_Witness ==
    /\ Level = "Minimal"
    /\ \E k \in Validations :
          LET standard == validate(AtLevel("Standard"), environment, returned[k].clock)
          IN  /\ OfSeverity(standard.value, "Warning") # <<>>
              /\ OfSeverity(standard.value, "Error") # <<>>
              /\ returned[k].result.value = OfSeverity(standard.value, "Error")

\* The template configuration the builder carries
BuilderTemplateConfig == builder.context_builder.template_config[1]

\* A variant of the configuration names no known definition
UnknownVariantTemplate ==
    /\ BuilderTemplateConfig.variants # None
    /\ \E i \in 1..Len(BuilderTemplateConfig.variants[1]) :
          \A j \in 1..Len(BuilderTemplateConfig.templates) :
              BuilderTemplateConfig.templates[j].name # BuilderTemplateConfig.variants[1][i].template

\* Two definitions of the configuration share a name
DuplicateDefinitionNames ==
    \E i, j \in 1..Len(BuilderTemplateConfig.templates) :
        i # j /\ BuilderTemplateConfig.templates[i].name = BuilderTemplateConfig.templates[j].name

HasConfigIssue(list) == \E i \in 1..Len(list) : list[i].category = "template_config"

\* C16: every issue Standard returns for a context is also returned at
\* Comprehensive level, and the self-consistency issues of the template
\* configuration (a variant of an unknown definition, duplicate definition
\* names) are reported at Comprehensive level and never at Minimal or Standard.
C16_LevelsInclusive ==
    \A k \in Validations :
        LET list == returned[k].result.value
            standard == validate(AtLevel("Standard"), environment, returned[k].clock)
        IN  IF Level = "Comprehensive"
            THEN /\ standard.ok
                 /\ \A i \in 1..Len(standard.value) : contains(list, standard.value[i])
                 /\ Len(list) >= Len(standard.value)
                 /\ HasConfigIssue(list) <=> (UnknownVariantTemplate \/ DuplicateDefinitionNames)
            ELSE ~HasConfigIssue(list)

\* Comprehensive reports a variant of an unknown definition beside the
\* issues Standard returns.
C16_Witness ==
    /\ Level = "Comprehensive"
    /\ UnknownVariantTemplate
    /\ \E k \in Validations :
          LET standard == validate(AtLevel("Standard"), environment, returned[k].clock)
          IN  /\ standard.value # <<>>
              /\ HasConfigIssue(returned[k].result.value)
              /\ ~HasConfigIssue(standard.value)
              /\ \A i \in 1..Len(standard.value) :
                    contains(returned[k].result.value, standard.value[i])

----------------------------------------------------------------------------
(* TemplateBuilder: build(), build_with_validation() and                   *)
(* build_with_metadata() called again and again on one builder             *)

\* TemplateBuilder::build as one call
build(b, env, clock) ==
    LET built == context_builder_build(b.context_builder, clock)
        validation_result == validate_template(b, built.value, env)
        handled == IF validation_result.value # <<>>
                   THEN handle_validation_issues(b.processing_options, validation_result.value)
                   ELSE Ok(<<>>)
        transformed == IF b.processing_options.apply_transformations
                       THEN apply_transformations(built.value) ELSE Ok(built.value)
        reference == IF b.variant_override # None
                     THEN with_variant(b.template_reference, b.variant_override[1])
                     ELSE b.template_reference
    IN  IF ~built.ok THEN built
        ELSE IF b.processing_options.validate_before_build /\ ~validation_result.ok
             THEN validation_result
        ELSE IF b.processing_options.validate_before_build /\ ~handled.ok THEN handled
        ELSE IF ~transformed.ok THEN transformed
        ELSE render_template(transformed.value, reference, clock)

\* ContextSummary::from_context
from_context(ctx) ==
    [course_id |-> ctx.course_id,
     course_name |-> ctx.course_name,
     title |-> ctx.title,
     template_type |-> ctx.metadata.course_type,
     sections_count |-> Len(ctx.sections),
     variables_count |-> Cardinality(DOMAIN ctx.variables),
     variant_used |-> ctx.metadata.variant_used]

\* The TemplateOutputWithValidation that build_with_validation returns
template_output_with_validation(content, validation_result, ctx) ==
    Ok([content |-> content, validation_result |-> validation_result,
        context_summary |-> from_context(ctx)])

\* A TemplateOutput whose content is left empty
template_output_without_content(content, ctx) ==
    Ok([content |-> <<>>, metadata |-> ctx.metadata, context_summary |-> from_context(ctx)])

\* The TemplateOutput that build_with_metadata returns
template_output(content, ctx) ==
    Ok([content |-> content, metadata |-> ctx.metadata, context_summary |-> from_context(ctx)])

\* The locals of build_with_validation and build_with_metadata
Outer(ctx, validation_result) == [context |-> ctx, validation_result |-> validation_result]

\* build_with_validation(): let context = self.context_builder.clone().build()?
BeginBuildWithValidation ==
    /\ Configuring
    /\ Len(returned) < MaxCalls
    /\ op' = "build_with_validation"
    /\ LET r == context_builder_build(builder.context_builder, now)
       IN  IF r.ok
           THEN /\ outer' = Some(Outer(r.value, None))
                /\ pc' = "validate_always"
                /\ UNCHANGED result
           ELSE /\ result' = Some(r)
                /\ pc' = "done"
                /\ UNCHANGED outer
    /\ UNCHANGED <<course_id, pattern, matches, context, now, template_ref, resolved,
                   template_def, variant, builder, environment, issues, generator_calls,
                   steps, returned, live_config, other>>

\* build_with_validation() that validates only under validate_before_build
ValidateIfEnabled ==
    /\ pc = "validate_always"
    /\ LET validation_result ==
               IF builder.processing_options.validate_before_build
               THEN validate_template(builder, outer[1].context, environment)
               ELSE Ok(<<>>)
       IN  IF ~validation_result.ok
           THEN /\ result' = Some(validation_result)
                /\ pc' = "done"
                /\ UNCHANGED outer
           ELSE /\ outer' = Some(Outer(outer[1].context, Some(validation_result.value)))
                /\ IF /\ OfSeverity(validation_result.value, "Error") # <<>>
                      /\ builder.processing_options.fail_on_validation_errors
                   THEN /\ result' = Some(Err("ValidationFailed",
                                   to_string(Len(OfSeverity(validation_result.value, "Error")))))
                        /\ pc' = "done"
                   ELSE /\ pc' = "build"
                        /\ UNCHANGED result
    /\ UNCHANGED <<course_id, pattern, matches, context, now, template_ref, resolved,
                   template_def, variant, builder, environment, issues, generator_calls,
                   op, steps, returned, live_config, other>>

\* build_with_validation(): the validation it always performs, and the
\* failure on Error issues under fail_on_validation_errors
ValidateAlways ==
    /\ pc = "validate_always"
    /\ LET validation_result == validate_template(builder, outer[1].context, environment)
       IN  IF ~validation_result.ok
           THEN /\ result' = Some(validation_result)
                /\ pc' = "done"
                /\ UNCHANGED outer
           ELSE /\ outer' = Some(Outer(outer[1].context, Some(validation_result.value)))
                /\ IF /\ OfSeverity(validation_result.value, "Error") # <<>>
                      /\ builder.processing_options.fail_on_validation_errors
                   THEN /\ result' = Some(Err("ValidationFailed",
                                   to_string(Len(OfSeverity(validation_result.value, "Error")))))
                        /\ pc' = "done"
                   ELSE /\ pc' = "build"
                        /\ UNCHANGED result
    /\ UNCHANGED <<course_id, pattern, matches, context, now, template_ref, resolved,
                   template_def, variant, builder, environment, issues, generator_calls,
                   op, steps, returned, live_config, other>>

\* build_with_metadata(): let context = self.context_builder.clone().build()?
BeginBuildWithMetadata ==
    /\ Configuring
    /\ Len(returned) < MaxCalls
    /\ op' = "build_with_metadata"
    /\ LET r == context_builder_build(builder.context_builder, now)
       IN  IF r.ok
           THEN /\ outer' = Some(Outer(r.value, None))
                /\ pc' = "build"
                /\ UNCHANGED result
           ELSE /\ result' = Some(r)
                /\ pc' = "done"
                /\ UNCHANGED outer
    /\ UNCHANGED <<course_id, pattern, matches, context, now, template_ref, resolved,
                   template_def, variant, builder, environment, issues, generator_calls,
                   steps, returned, live_config, other>>

\* The caller calls build()
BeginBuild ==
    /\ Len(returned) < MaxCalls
    /\ Configuring
    /\ BuildContext

\* The call returns to the caller: the value of build() as it is, or wrapped
\* in the output of build_with_validation / build_with_metadata; the locals
\* of the call are dropped.
Return ==
    /\ pc = "done"
    /\ LET value ==
               IF op = "build" \/ ~result[1].ok THEN result[1]
               ELSE IF op = "build_with_validation"
                    THEN template_output_with_validation(
                             result[1].value, outer[1].validation_result[1], outer[1].context)
                    ELSE template_output(result[1].value, outer[1].context)
       IN  returned' = Append(returned, Returned(op, value, generator_calls))
    /\ pc' = "configure"
    /\ op' = "none"
    /\ steps' = <<>>
    /\ outer' = None
    /\ context' = IdleContext
    /\ template_ref' = TemplateReference("note")
    /\ template_def' = None
    /\ variant' = None
    /\ result' = None
    /\ issues' = None
    /\ generator_calls' = 0
    /\ UNCHANGED <<course_id, pattern, matches, now, resolved, builder, environment,
                   live_config, other>>

\* A later reading of the wall clock
LaterDate == [year |-> 2025, month |-> 2, day |-> 3]

\* Time passes between two calls
Tick ==
    /\ Configuring
    /\ now = FixedDate
    /\ now' = LaterDate
    /\ UNCHANGED <<pc, course_id, pattern, matches, context, template_ref, resolved,
                   template_def, variant, result, builder, environment, issues,
                   generator_calls, op, steps, caller>>

\* build() called from build_with_validation / build_with_metadata
InnerBuild ==
    /\ pc = "build"
    /\ BuildContext

----------------------------------------------------------------------------
(* Specification of repeated calls on one configured builder *)

CallEngines == {None, Some(EngineConfig(TRUE, <<"course_id", "reviewer">>))}

InitCalls ==
    /\ pc = "configure"
    /\ \E author \in {"", "Author"},
          engine \in CallEngines,
          reference \in {TemplateReference("note"), TemplateReference("thesis")},
          validate_before_build \in BOOLEAN,
          fail_on_validation_errors \in BOOLEAN,
          transformations \in BOOLEAN :
            builder = [NewTemplateBuilder(
                           <<"0", "1">>,
                           Config(author, [id \in {<<"0", "1">>} |-> "Mathematics 1"]),
                           [TemplateConfig(<<NoteDefinition, AssignmentDefinition>>, None, None)
                               EXCEPT !.engine = engine])
                       EXCEPT !.template_reference = reference,
                              !.processing_options.validate_before_build = validate_before_build,
                              !.processing_options.fail_on_validation_errors =
                                  fail_on_validation_errors,
                              !.processing_options.apply_transformations = transformations]
    /\ environment = Ok(<<>>)
    /\ now = FixedDate
    /\ context = IdleContext
    /\ template_ref = TemplateReference("note")
    /\ course_id = <<>>
    /\ pattern = <<>>
    /\ matches = None
    /\ resolved = <<>>
    /\ template_def = None
    /\ variant = None
    /\ result = None
    /\ issues = None
    /\ generator_calls = 0
    /\ op = "none"
    /\ steps = <<>>
    /\ outer = None
    /\ returned = <<>>
    /\ live_config = builder.context_builder.config
    /\ other = None

NextCalls ==
    \/ BeginBuild
    \/ BeginBuildWithValidation
    \/ ValidateAlways
    \/ BeginBuildWithMetadata
    \/ InnerBuild
    \/ ValidateBeforeBuild
    \/ ApplyTransformations
    \/ GetTemplateDefinition
    \/ SelectVariant
    \/ GenerateDocument
    \/ CallValidate
    \/ Return
    \/ Tick

SpecCalls == InitCalls /\ [][NextCalls]_vars

\* The calls of a method among those that have returned
CallsOf(method) == {k \in 1..Len(returned) : returned[k].op = method}

\* C17: build_with_validation() validates even when validate_before_build is
\* false; with fail_on_validation_errors set and an Error issue present it
\* fails without rendering; otherwise it returns the rendered text with the
\* full issue list of that validation and a summary of the context.
C17_BuildWithValidationAlwaysValidates ==
    \A k \in CallsOf("build_with_validation") :
        LET call == returned[k]
            validation == validate(builder, environment, call.clock)
            text == build(builder, environment, call.clock)
            built == context_builder_build(builder.context_builder, call.clock)
        IN  IF ~validation.ok
            THEN call.result = validation /\ call.renders = 0
            ELSE IF FailOnErrors /\ ErrorCount(validation.value) >= 1
            THEN /\ ~call.result.ok
                 /\ call.result.error.kind = "ValidationFailed"
                 /\ call.result.error.args = to_string(ErrorCount(validation.value))
                 /\ call.renders = 0
            ELSE IF ~text.ok
            THEN call.result = text
            ELSE /\ call.result.ok
                 /\ call.renders = 1
                 /\ call.result.value.content = text.value
                 /\ call.result.value.validation_result = validation.value
                 /\ call.result.value.context_summary = from_context(built.value)

\* validate_before_build is false, yet the output carries the issues of a
\* validation, an Error among them.
C17_Witness ==
    /\ ~builder.processing_options.validate_before_build
    /\ \E k \in CallsOf("build_with_validation") :
          /\ returned[k].result.ok
          /\ ErrorCount(returned[k].result.value.validation_result) >= 1
          /\ Len(returned[k].result.value.validation_result) >= 2
          /\ returned[k].result.value.content # <<>>

\* C18: for the same builder, options and clock, build_with_metadata()
\* succeeds exactly when build() succeeds and its content is the text build()
\* returns.
C18_MetadataContentIsBuildContent ==
    /\ \A k \in CallsOf("build_with_metadata") :
          LET text == build(builder, environment, returned[k].clock)
          IN  /\ returned[k].result.ok = text.ok
              /\ returned[k].result.ok => returned[k].result.value.content = text.value
    /\ \A i \in CallsOf("build"), k \in CallsOf("build_with_metadata") :
          returned[i].clock = returned[k].clock =>
              /\ returned[k].result.ok = returned[i].result.ok
              /\ returned[k].result.ok =>
                    returned[k].result.value.content = returned[i].result.value

\* build() and build_with_metadata() at the same clock, both returning text.
C18_Witness ==
    \E i \in CallsOf("build"), k \in CallsOf("build_with_metadata") :
        /\ returned[i].clock = returned[k].clock
        /\ returned[i].result.ok
        /\ returned[k].result.ok
        /\ returned[k].result.value.content = returned[i].result.value
        /\ returned[i].result.value # <<>>

----------------------------------------------------------------------------
(* Specification of a generation beside the caller's live configuration    *)
(* and another caller                                                      *)

\* The values the caller's Config takes
LiveConfigs ==
    {Config("Author", [id \in {<<"0", "1">>} |-> "Mathematics 1"]),
     Config("", [id \in {} |-> ""])}

\* The template configuration loaded when a builder is created
LoadedTemplateConfig == TemplateConfig(<<NoteDefinition, AssignmentDefinition>>, None, None)

\* TemplateBuilder::new(course_id, &config): the builder takes config.clone()
NewBuilder ==
    /\ pc = "new"
    /\ builder' = NewTemplateBuilder(<<"0", "1">>, live_config[1], LoadedTemplateConfig)
    /\ pc' = "configure"
    /\ UNCHANGED <<course_id, pattern, matches, context, now, template_ref, resolved,
                   template_def, variant, result, environment, issues, generator_calls,
                   op, steps, caller>>

\* The caller edits its own Config value
MutateLiveConfig ==
    /\ live_config # None
    /\ \E config \in LiveConfigs \ {live_config[1]} : live_config' = Some(config)
    /\ UNCHANGED <<pc, course_id, pattern, matches, context, now, template_ref, resolved,
                   template_def, variant, result, builder, environment, issues,
                   generator_calls, op, steps, outer, returned, other>>

\* Another caller creates a builder of its own from the Config as it is now
OtherCallerNew ==
    /\ live_config # None
    /\ other = None
    /\ other' = Some([builder |-> NewTemplateBuilder(<<"0", "1">>, live_config[1],
                                                     LoadedTemplateConfig),
                      result |-> None])
    /\ UNCHANGED <<pc, course_id, pattern, matches, context, now, template_ref, resolved,
                   template_def, variant, result, builder, environment, issues,
                   generator_calls, op, steps, outer, returned, live_config>>

\* The other caller runs build() on its builder
OtherCallerBuild ==
    /\ other # None
    /\ other[1].result = None
    /\ other' = Some([other[1] EXCEPT
                         !.result = Some(build(other[1].builder, environment, now))])
    /\ UNCHANGED <<pc, course_id, pattern, matches, context, now, template_ref, resolved,
                   template_def, variant, result, builder, environment, issues,
                   generator_calls, op, steps, outer, returned, live_config>>

InitSnapshot ==
    /\ pc = "new"
    /\ live_config \in {Some(config) : config \in LiveConfigs}
    /\ builder = IdleBuilder
    /\ environment = Ok(<<>>)
    /\ now = FixedDate
    /\ context = IdleContext
    /\ template_ref = TemplateReference("note")
    /\ course_id = <<>>
    /\ pattern = <<>>
    /\ matches = None
    /\ resolved = <<>>
    /\ template_def = None
    /\ variant = None
    /\ result = None
    /\ issues = None
    /\ generator_calls = 0
    /\ op = "none"
    /\ steps = <<>>
    /\ outer = None
    /\ returned = <<>>
    /\ other = None

NextSnapshot ==
    \/ NewBuilder
    \/ MutateLiveConfig
    \/ OtherCallerNew
    \/ OtherCallerBuild
    \/ BeginBuild
    \/ ValidateBeforeBuild
    \/ ApplyTransformations
    \/ GetTemplateDefinition
    \/ SelectVariant
    \/ GenerateDocument
    \/ CallValidate
    \/ Return

SpecSnapshot == InitSnapshot /\ [][NextSnapshot]_vars

\* C20: the result of a generation depends only on the configuration copied
\* when its builder was created: edits of the caller's live Config and another
\* caller's generation on its own snapshot, interleaved with it, change
\* neither the generated text nor the validation result.
C20_SnapshotIsolation ==
    /\ \A i, k \in 1..Len(returned) :
          (returned[i].op = returned[k].op /\ returned[i].clock = returned[k].clock) =>
              returned[i].result = returned[k].result
    /\ \A k \in 1..Len(returned) :
          /\ returned[k].builder = builder
          /\ returned[k].result =
                IF returned[k].op = "validate"
                THEN validate(builder, environment, returned[k].clock)
                ELSE build(builder, environment, returned[k].clock)
          /\ returned[k].result.ok
          /\ returned[k].op = "build" =>
                \E p \in 1..Len(returned[k].result.value) :
                    /\ returned[k].result.value[p] = "author: \""
                    /\ returned[k].result.value[p + 1] = builder.context_builder.config[1].author
    /\ (other # None /\ other[1].result # None) =>
          other[1].result[1] = build(other[1].builder, environment, now)

\* The caller's Config was edited between two builds, and another caller
\* generated a different text from its own snapshot: both builds return the
\* same text, made from the Config copied at creation.
C20_Witness ==
    /\ Len(returned) = 3
    /\ returned[1].op = "build"
    /\ returned[3].op = "build"
    /\ returned[1].live # returned[3].live
    /\ returned[1].result = returned[3].result
    /\ returned[3].live # builder.context_builder.config
    /\ other # None
    /\ other[1].result # None
    /\ other[1].result[1].ok
    /\ other[1].result[1] # returned[1].result

----------------------------------------------------------------------------
(* Specification of TemplateContextBuilder::build, and of rendering the    *)
(* context it produced                                                     *)

\* The variables a caller adds with with_variable
CallerVariables ==
    {<<>>,
     [k \in {"author"} |-> "Other"],
     [k \in {"reviewer"} |-> "R"],
     [k \in {"title", "reviewer"} |-> IF k = "title" THEN "Custom" ELSE "R"]}

\* The custom fields a caller adds with with_custom_field
CallerCustomFields == {<<>>, [k \in {"room"} |-> "101"]}

\* A TemplateContextBuilder after the caller's with_* calls
ContextBuilders ==
    [course_id : {None, Some(<<"0", "1">>)},
     config : {None, Some(Config("Author", [id \in {<<"0", "1">>} |-> "Mathematics 1"]))},
     template_config : {None, Some(LoadedTemplateConfig)},
     title : {None, Some("My Title")},
     custom_fields : CallerCustomFields,
     sections : {None, Some(<<"S1">>)},
     variables : CallerVariables]

InitContext ==
    /\ pc = "context"
    /\ \E cb \in ContextBuilders : builder = [configured |-> FALSE, context_builder |-> cb]
    /\ environment = Ok(<<>>)
    /\ now = FixedDate
    /\ context = IdleContext
    /\ template_ref = TemplateReference("note")
    /\ course_id = <<>>
    /\ pattern = <<>>
    /\ matches = None
    /\ resolved = <<>>
    /\ template_def = None
    /\ variant = None
    /\ result = None
    /\ issues = None
    /\ generator_calls = 0
    /\ op = "none"
    /\ steps = <<>>
    /\ outer = None
    /\ returned = <<>>
    /\ live_config = builder.context_builder.config
    /\ other = None

\* TemplateContextBuilder::build called by the caller itself
ContextBuilderBuild ==
    /\ pc = "context"
    /\ LET r == context_builder_build(builder.context_builder, now)
       IN  /\ result' = Some(r)
           /\ IF r.ok
              THEN context' = r.value /\ pc' = "built"
              ELSE pc' = "done" /\ UNCHANGED context
    /\ steps' = Append(steps, "context")
    /\ UNCHANGED <<course_id, pattern, matches, now, template_ref, resolved, template_def,
                   variant, builder, environment, issues, generator_calls, op, caller>>

\* The caller takes the template configuration out of the context: the field
\* is public
ClearTemplateConfig ==
    /\ pc = "built"
    /\ context.template_config # None
    /\ context' = [context EXCEPT !.template_config = None]
    /\ UNCHANGED <<pc, course_id, pattern, matches, now, template_ref, resolved,
                   template_def, variant, result, builder, environment, issues,
                   generator_calls, op, steps, caller>>

\* The caller hands the context to TemplateEngine::render_template
RenderBuilt ==
    /\ pc = "built"
    /\ pc' = "render"
    /\ result' = None
    /\ UNCHANGED <<course_id, pattern, matches, context, now, template_ref, resolved,
                   template_def, variant, builder, environment, issues, generator_calls,
                   op, steps, caller>>

NextContext ==
    \/ ContextBuilderBuild
    \/ ClearTemplateConfig
    \/ RenderBuilt
    \/ GetTemplateDefinition
    \/ SelectVariant
    \/ GenerateDocument

SpecContext == InitContext /\ [][NextContext]_vars

\* TemplateContextBuilder::build has returned and nothing else has run
Built == steps = <<"context">> /\ result # None

BuiltinKeys == {"course_id", "title", "author", "semester", "date", "year"}

\* C21: every context produced by the builder holds the six builtin keys in
\* variables, and for every key the caller supplied it holds the caller's
\* value, also when the key is a builtin one.
C21_BuiltinsAndCallerVariables ==
    (Built /\ result[1].ok) =>
        /\ BuiltinKeys \subseteq DOMAIN result[1].value.variables
        /\ DOMAIN result[1].value.variables =
              BuiltinKeys \cup DOMAIN builder.context_builder.variables
        /\ \A k \in DOMAIN builder.context_builder.variables :
              result[1].value.variables[k] = builder.context_builder.variables[k]
        /\ \A k \in DOMAIN builder.context_builder.custom_fields :
              result[1].value.custom_fields[k] = builder.context_builder.custom_fields[k]

\* The caller supplied the builtin key author: its value replaced the
\* configuration's author in variables.
C21_Witness ==
    /\ Built
    /\ result[1].ok
    /\ "author" \in DOMAIN builder.context_builder.variables
    /\ result[1].value.variables["author"] = "Other"
    /\ result[1].value.author = "Author"

MissingRequiredField ==
    result # None /\ ~result[1].ok /\ result[1].error.kind = "MissingRequiredField"

\* C22: the builder fails with MissingRequiredField, creating no context,
\* whenever course_id or the configuration is missing; an absent
\* template_config, title, sections override, variables or custom fields is
\* no error.
C22_MissingRequiredField ==
    Built =>
        IF builder.context_builder.course_id = None \/ builder.context_builder.config = None
        THEN /\ MissingRequiredField
             /\ result[1].value = <<>>
             /\ context = IdleContext
             /\ pc = "done"
        ELSE /\ result[1].ok
             /\ builder.context_builder.template_config = None =>
                   result[1].value.template_config = Some(DefaultTemplateConfig)

\* Only course_id and the configuration supplied: a context is created.
C22_Witness ==
    /\ Built
    /\ builder.context_builder.template_config = None
    /\ builder.context_builder.title = None
    /\ builder.context_builder.sections = None
    /\ DOMAIN builder.context_builder.variables = {}
    /\ DOMAIN builder.context_builder.custom_fields = {}
    /\ result[1].ok
    /\ result[1].value.template_config = Some(DefaultTemplateConfig)

ConfigurationAbsent ==
    result # None /\ ~result[1].ok /\ result[1].error.kind = "ConfigurationAbsent"

\* render_template has run on the context and returned
Rendered == pc = "done" /\ Ran("definition")

\* C23 as claimed: generation fails with ConfigurationAbsent, producing no
\* text, when no template configuration was supplied at all.
C23_ConfigurationAbsentWhenNotSupplied ==
    (Rendered /\ (builder.context_builder.template_config = None
                     \/ context.template_config = None)) =>
        /\ ConfigurationAbsent
        /\ result[1].value = <<>>
        /\ generator_calls = 0

\* C23 as amended: generation fails with ConfigurationAbsent, producing no
\* text, exactly when the context holds no template configuration; a context
\* the builder made without a template_config holds the default, empty
\* configuration, and generation on it fails with TemplateNotFound instead,
\* producing no text either.
C23_ConfigurationAbsentWhenContextHoldsNone ==
    Rendered =>
        /\ ConfigurationAbsent <=> context.template_config = None
        /\ ConfigurationAbsent => (result[1].value = <<>> /\ generator_calls = 0)
        /\ (builder.context_builder.template_config = None /\ context.template_config # None) =>
              /\ context.template_config = Some(DefaultTemplateConfig)
              /\ TemplateNotFound
              /\ result[1].value = <<>>
              /\ generator_calls = 0

\* The caller took the configuration the builder had been given out of the
\* context: ConfigurationAbsent.
C23_Witness ==
    /\ Rendered
    /\ builder.context_builder.template_config # None
    /\ context.template_config = None
    /\ ConfigurationAbsent
    /\ generator_calls = 0

\* The context field that carries the name of a builtin variable
FieldNamed(ctx, k) ==
    CASE k = "course_id" -> ctx.course_id
      [] k = "title" -> ctx.title
      [] k = "author" -> ctx.author
      [] k = "semester" -> ctx.semester
      [] k = "date" -> ctx.date

\* C29: in every context the builder produces, each builtin variable the
\* caller did not override agrees with the context field of the same name
\* (course_id, title, author, semester, date).
C29_BuiltinVariablesAgreeWithFields ==
    (Built /\ result[1].ok) =>
        \A k \in {"course_id", "title", "author", "semester", "date"}
                 \ DOMAIN builder.context_builder.variables :
            result[1].value.variables[k] = FieldNamed(result[1].value, k)

----------------------------------------------------------------------------
(* The variant applied by render_template *)

\* The text holds the piece
Holds(text, piece) == \E at \in DOMAIN text : text[at] = piece

\* The variants of the context's configuration
ContextVariants ==
    IF context.template_config # None /\ context.template_config[1].variants # None
    THEN context.template_config[1].variants[1] ELSE <<>>

\* C26: the variant applied during rendering, chosen by name or by course
\* type, has template equal to the resolved definition's name; a variant of
\* another definition or of no definition is never applied.
C26_AppliedVariantBelongsToDefinition ==
    (pc \in {"generate", "done"} /\ variant # None) =>
        /\ template_def # None
        /\ variant[1].template = template_def[1].name
        /\ \E i \in DOMAIN ContextVariants : ContextVariants[i] = variant[1]

\* A variant of another or of no definition stands first in the list and
\* would fit by name or by course type; the one applied is the later variant
\* of the rendered definition.
C26_Witness ==
    /\ pc = "done"
    /\ result # None /\ result[1].ok
    /\ variant # None
    /\ Len(ContextVariants) = 2
    /\ ContextVariants[1].template # template_def[1].name
    /\ ContextVariants[1].name = variant[1].name
    /\ ContextVariants[1].course_types = <<"all">>
    /\ ContextVariants[2] = variant[1]

----------------------------------------------------------------------------
(* The transformation step of build() *)

----------------------------------------------------------------------------
(* The explicitly requested variant *)

\* The positions of the variants of the resolved definition with the
\* requested name
Requested ==
    {i \in DOMAIN ContextVariants :
        /\ ContextVariants[i].template = template_def[1].name
        /\ ContextVariants[i].name = template_ref.variant[1]}

\* C30: the reference build() renders carries the builder's variant override
\* in place of any variant the template reference names; and a variant
\* requested by name is applied whenever the resolved definition has a
\* variant of that name, whatever the variant's course_types, the course
\* mapping and the baseline course type are.
C30_ExplicitVariantRegardlessOfCourseType ==
    /\ (pc \in {"render", "select", "generate"} \/ (pc = "done" /\ Ran("definition"))) =>
          /\ builder.variant_override # None => template_ref.variant = builder.variant_override
          /\ builder.variant_override = None => template_ref = builder.template_reference
          /\ template_ref.name = builder.template_reference.name
    /\ ((pc = "generate" \/ (pc = "done" /\ Ran("variant")))
            /\ template_ref.variant # None /\ Requested # {}) =>
          /\ variant # None
          /\ \E i \in Requested :
                /\ variant[1] = ContextVariants[i]
                /\ \A j \in Requested : i <= j
          /\ pc = "done" => Ran("generate")

\* The reference names "v2", the override "v1"; the variant "v1" is for
\* physics courses, the course is a math course, and the text is rendered
\* with it.
C30_Witness ==
    /\ pc = "done"
    /\ builder.template_reference.variant = Some("v2")
    /\ builder.variant_override = Some("v1")
    /\ template_ref.variant = Some("v1")
    /\ variant # None
    /\ variant[1].course_types = <<"physics">>
    /\ context.metadata.course_type = "math"
    /\ context.template_config[1].course_mapping = None
    /\ result[1].ok
    /\ Holds(result[1].value, "dtu-special")

----------------------------------------------------------------------------
(* Specification of the builder's calls over a configuration with variants *)

SpecialVariants ==
    {None,
     Some(<<Variant("v1", "note", <<"all">>, Some("dtu-special"), None, Some(<<"X">>))>>),
     Some(<<Variant("v2", "note", <<"math">>, Some("dtu-special"), Some(<<"A">>), None)>>)}

InitVariantCalls ==
    /\ pc = "configure"
    /\ \E engine \in CallEngines,
          variants \in SpecialVariants,
          reference \in {TemplateReference("note"),
                         with_variant(TemplateReference("note"), "v2")},
          validate_before_build \in BOOLEAN :
            builder = [NewTemplateBuilder(
                           <<"0", "1">>,
                           Config("Author", [id \in {<<"0", "1">>} |-> "Mathematics 1"]),
                           [TemplateConfig(<<NoteDefinition, AssignmentDefinition>>,
                                           variants, None)
                               EXCEPT !.engine = engine])
                       EXCEPT !.template_reference = reference,
                              !.processing_options.validate_before_build =
                                  validate_before_build]
    /\ environment = Ok(<<>>)
    /\ now = FixedDate
    /\ context = IdleContext
    /\ template_ref = TemplateReference("note")
    /\ course_id = <<>>
    /\ pattern = <<>>
    /\ matches = None
    /\ resolved = <<>>
    /\ template_def = None
    /\ variant = None
    /\ result = None
    /\ issues = None
    /\ generator_calls = 0
    /\ op = "none"
    /\ steps = <<>>
    /\ outer = None
    /\ returned = <<>>
    /\ live_config = builder.context_builder.config
    /\ other = None

SpecVariantCalls == InitVariantCalls /\ [][NextCalls]_vars

\* C27: variant resolution and rendering leave the context unchanged, with
\* metadata.course_type at its baseline value and metadata.variant_used
\* absent; the metadata and the context summary returned by
\* build_with_metadata() and build_with_validation() are those of the
\* context as built and report no variant, whatever variant the content was
\* rendered with.
C27_RenderingLeavesContextUnchanged ==
    /\ [][(pc \in {"render", "select", "generate"}) => context' = context]_vars
    /\ [](pc \in {"render", "select", "generate"} =>
             /\ context.metadata.variant_used = None
             /\ context.metadata.course_type =
                    context_builder_build(builder.context_builder, now).value
                        .metadata.course_type)
    /\ [](\A k \in CallsOf("build_with_metadata") :
             returned[k].result.ok =>
                LET built == context_builder_build(returned[k].builder.context_builder,
                                                   returned[k].clock).value
                IN  /\ returned[k].result.value.metadata = built.metadata
                    /\ returned[k].result.value.metadata.variant_used = None
                    /\ returned[k].result.value.context_summary = from_context(built)
                    /\ returned[k].result.value.context_summary.variant_used = None)
    /\ [](\A k \in CallsOf("build_with_validation") :
             returned[k].result.ok =>
                LET built == context_builder_build(returned[k].builder.context_builder,
                                                   returned[k].clock).value
                IN  /\ returned[k].result.value.context_summary = from_context(built)
                    /\ returned[k].result.value.context_summary.variant_used = None)

\* build_with_metadata() and build_with_validation() both returned a text
\* rendered with the variant's function, and report no variant.
C27_Witness ==
    \E i \in CallsOf("build_with_metadata"), k \in CallsOf("build_with_validation") :
        /\ returned[i].result.ok
        /\ returned[k].result.ok
        /\ Holds(returned[i].result.value.content, "dtu-special")
        /\ Holds(returned[k].result.value.content, "dtu-special")
        /\ returned[i].result.value.metadata.variant_used = None
        /\ returned[i].result.value.context_summary.variant_used = None
        /\ returned[k].result.value.context_summary.variant_used = None

----------------------------------------------------------------------------
(* Specification of the semester string *)

\* The pieces of a custom pattern
PatternPieces == {"{year}", "{season}", "{s}", "{yy}", "{}", " ", "-"}

SemesterFormats ==
    {SemesterFormat(style, <<>>) : style \in {"YearSeason", "SeasonYear", "ShortForm"}}
    \cup {SemesterFormat("Custom", custom) : custom \in Lists(PatternPieces, MaxLen)}

\* The readings of the clock: spring and fall of 2024, and of a year whose
\* last two digits start with 0
SemesterClocks ==
    {[year |-> y, month |-> mo, day |-> 1] : y \in {2024, 2005}, mo \in {3, 9}}

InitSemester ==
    /\ pc = "semester"
    /\ \E format \in SemesterFormats :
          live_config = Some([Config("Author", [id \in {} |-> ""])
                                 EXCEPT !.semester_format = format])
    /\ now \in SemesterClocks
    /\ builder = IdleBuilder
    /\ environment = Ok(<<>>)
    /\ context = IdleContext
    /\ template_ref = TemplateReference("note")
    /\ course_id = <<>>
    /\ pattern = <<>>
    /\ matches = None
    /\ resolved = <<>>
    /\ template_def = None
    /\ variant = None
    /\ result = None
    /\ issues = None
    /\ generator_calls = 0
    /\ op = "none"
    /\ steps = <<>>
    /\ outer = None
    /\ returned = <<>>
    /\ other = None

\* StatusManager::get_current_semester(config)
GetCurrentSemester ==
    /\ pc = "semester"
    /\ result' = Some(Ok(get_current_semester(live_config[1], now)))
    /\ pc' = "done"
    /\ UNCHANGED <<course_id, pattern, matches, context, now, template_ref, resolved,
                   template_def, variant, builder, environment, issues, generator_calls,
                   op, steps, caller>>

NextSemester == GetCurrentSemester

SpecSemester == InitSemester /\ [][NextSemester]_vars

Season == IF now.month <= 6 THEN "Spring" ELSE "Fall"

SeasonLetter == IF now.month <= 6 THEN "S" ELSE "F"

\* What a piece of a custom pattern stands for
RECURSIVE Substituted(_)
Substituted(custom) ==
    IF custom = <<>> THEN <<>>
    ELSE (CASE Head(custom) = "{year}" -> to_string(now.year)
            [] Head(custom) = "{season}" -> <<Season>>
            [] Head(custom) = "{s}" -> <<SeasonLetter>>
            [] Head(custom) = "{yy}" -> two_digits(now.year % 100)
            [] OTHER -> <<Head(custom)>>)
         \o Substituted(Tail(custom))

\* C24: the semester string is made from the year and the season by the
\* configured style: "year season" ("2024 Spring", "2024 Fall"), "season
\* year", the abbreviated form, or a custom pattern in which every {year},
\* {season}, {s} and {yy} is replaced by the full year, the season name, the
\* season letter and the two-digit year (a pattern holding the piece "{}",
\* which the claim does not speak of, is left out).
C24_SemesterByConfiguredStyle ==
    pc = "done" =>
        result[1].value =
            CASE live_config[1].semester_format.style = "YearSeason" ->
                    to_string(now.year) \o <<" ", Season>>
              [] live_config[1].semester_format.style = "SeasonYear" ->
                    <<Season, " ">> \o to_string(now.year)
              [] live_config[1].semester_format.style = "ShortForm" ->
                    <<SeasonLetter>> \o to_string(now.year % 100)
              [] live_config[1].semester_format.style = "Custom" ->
                    IF \E i \in DOMAIN live_config[1].semester_format.pattern :
                           live_config[1].semester_format.pattern[i] = "{}"
                    THEN result[1].value
                    ELSE Substituted(live_config[1].semester_format.pattern)

====
